---------------------------- MODULE Spec2Model ----------------------------
(***************************************************************************)
(* A model of the HIP operator fragment of caffe2: the device bookkeeping  *)
(* of core/common_hip.cc and the operators BooleanMask, BooleanUnmask,     *)
(* SequenceMask, LRN (MIOpen), LayerNorm, RMACRegions, SparseToDense and   *)
(* RowWiseSparseAdagrad.  The operators do not interact, so each family    *)
(* has its own specification over its own group of variables; the other    *)
(* groups stay at their idle values.                                       *)
(***************************************************************************)
EXTENDS Integers, Sequences, FiniteSets, TLC

(***************************************************************************)
(* Bounds of the model.                                                    *)
(***************************************************************************)
\* the largest number of GPUs the machine may hold
MaxDevices == 2
\* host threads calling CaffeHipGetDevice / CaffeHipSetDevice
NumHostThreads == 2
\* BooleanMask: longest mask, most bytes in one source row, largest grid and
\* block of the copy kernel
BmMaxOuter == 3
BmMaxBytes == 2
BmMaxBlocks == 2
BmMaxThreads == 2
\* LayerNorm: largest rank and largest dimension of the input
LnMaxRank == 3
LnMaxDim == 2
\* RMACRegions: largest batch, height/width and number of scales
RmMaxBatch == 2
RmMaxHW == 3
RmMaxScales == 2
\* BooleanUnmask: most (mask, values) pairs and longest mask
UmMaxMasks == 2
UmMaxSize == 2
\* SparseToDense: most indices, most output rows, most items in a value row,
\* largest block and grid of the scatter kernel
S2dMaxLen == 2
S2dMaxRows == 2
S2dMaxItems == 2
S2dMaxThreads == 2
S2dMaxBlocks == 2
\* RowWiseSparseAdagrad: most gradient rows, widest row, largest block and grid
AgMaxRows == 3
AgMaxCols == 2
AgMaxThreads == 2
AgMaxBlocks == 2
AgMaxLive == 2
RkMaxN == 3
RkMaxThreads == 2
RkMaxBlocks == 2
SaMaxRows == 2
SaMaxSlice == 2
SaMaxThreads == 2
SaMaxBlocks == 1
UkMaxThreads == 2
UkMaxBlocks == 1
SmMaxDim == 2
SmMaxSize == 8
SmMaxThreads == 2
SmMaxBlocks == 2

(***************************************************************************)
(* Constants of the program.                                               *)
(***************************************************************************)
\* RMACRegionsOp::RunOnDevice: int min_step = 1, max_step = 6
RmMinStep == 1
RmMaxStep == 6
\* the largest int32_t, the element type of SparseToDense's values
MaxInt32 == 2147483647

VARIABLES
    \* ---- core/common_hip.cc ----
    asan,            \* CAFFE2_ASAN_ENABLED of the build
    hwDevices,       \* the GPUs the runtime can see
    count,           \* NumHipDevices: static int count
    aborted,         \* LOG(FATAL) was reached: the process is gone
    lastErr,         \* result of the latest hipGetDeviceCount in NumHipDevices
    numRet,          \* value returned by the latest NumHipDevices call
    fullControl,     \* FLAGS_caffe2_hip_full_device_control
    gCurrentDevice,  \* thread_local int gCurrentDevice
    rtDevice,        \* the runtime's current device of each thread
    devCall,         \* the latest CaffeHipGetDevice / CaffeHipSetDevice call
    \* ---- operators/boolean_mask_ops_hip.cc: BooleanMaskOp ----
    bmIn,            \* Input(0), Input(1), OutputSize(), launch constants
    bmPc,            \* "start", "kernel", "copy", "done", "throw"
    bmFailed,        \* the check that threw
    bmResized,       \* tensors resized by the run so far
    bmLaunched,      \* device work enqueued by the run so far
    bmIndices,       \* indices_: its contents
    bmNumOfOutput,   \* numOfOutput as copied back to the host
    bmDestDims,      \* dest->dims()
    bmDest,          \* the bytes of dest
    bmIndicesOut,    \* Output(1), when there is one
    bmGrid,          \* hipGridDim_x of the copy kernel
    bmNext,          \* per kernel thread: its next (i, j), or "done"
    \* ---- operators/layer_norm_op_hip.cc ----
    lnIn,            \* the operator, the shape of its input, axis_
    lnPc,            \* host: "start", "enqueue", "done", "throw"
    lnFailed,        \* the check that threw
    lnResized,       \* tensors resized by the run so far
    lnHostNext,      \* the next step of the program the host enqueues
    lnQueue,         \* per stream: the steps enqueued and not yet started
    lnRunning,       \* per stream: the step executing (0: none)
    lnBuf,           \* per device buffer: the value it holds
    \* ---- BooleanUnmask, SequenceMask, LRN, RMACRegions: host side ----
    opArgs,          \* the operator; RMACRegions: scales_, overlap_ (in tenths)
    opIn,            \* the latest run: the operator and its inputs
    opResult,        \* "none", "ok", "throw"
    opFailed,        \* the check that threw
    opResized,       \* tensors the latest run resized
    opLaunched,      \* device work the latest run enqueued
    opWritten,       \* output tensors whose elements the latest run's work writes
    outDims,         \* per operator: the shape of its Output(0)
    lrnInputDims,    \* MIOPEN_LRNOP::miopen_input_dims_
    lrnDesc,         \* what data_desc_ describes: shape and element type
    rmacNumRois,     \* RMACRegionsOp::num_rois_: num_rois, Wd, Hd
    \* ---- operators/sparse_to_dense_op_hip.cc ----
    s2dIn,           \* Input(INDICES), Input(VALUES), the output's first dim
    s2dPc,           \* "start", "stream", "done", "throw"
    s2dFailed,       \* the check that threw
    s2dQueue,        \* context_.hip_stream(): work enqueued and not yet started
    s2dRunning,      \* the scatter kernel is executing
    s2dOutDims,      \* output->dims()
    s2dOut,          \* the elements of output
    s2dZeroed,       \* math::Set has run
    s2dAdded,        \* the i whose atomicAdd has been done
    s2dNext,         \* per kernel thread: its next i, or -1
    \* ---- sgd/adagrad_op_hip.cc: RowWiseSparseAdagrad ----
    agIn,            \* GRAD's M and N, INDICES, the launch constants
    agPc,            \* host: "start", "kernel", "done"
    agGrid,          \* hipGridDim_x
    agThPc,          \* per kernel thread: where it is in the kernel
    agRow,           \* per kernel thread: i of the row loop
    agTmp,           \* per kernel thread: the param_mom[index] it has read
    agReduces,       \* per kernel thread: block reductions it has passed
    agSyncs,         \* per kernel thread: __syncthreads() it has passed
    agMom,           \* param_mom: per parameter row, the rows i added to it
    agMomAdded,      \* per block: the rows i whose mean thread 0 has added
    agParam,         \* param: per element, the rows i applied to it
    \* ---- operators/boolean_mask_ops_hip.cc: sequenceMaskKernel ----
    smIn,            \* Input(0), the sequence lengths, the arguments of the
                     \* operator, the launch constants
    smPc,            \* host: "start", "kernel", "done"
    smGrid,          \* hipGridDim_x
    smArgs,          \* the kernel's N, M, B and fill_val
    smPending,       \* the kernel threads that have not run yet
    smOut,           \* the elements of the output
    smWrites,        \* per output element: how many times it was written
    \* ---- operators/boolean_unmask_ops_hip.cc: the two kernels ----
    ukIn,            \* the masks, the values tensors, the launch constants,
                     \* the byte an uninitialised read gives
    ukPc,            \* the stream: "start", "indices", "fill", "done", or
                     \* "trapIndices", "trapFill" after a kernel assertion
    ukGrid,          \* hipGridDim_x of the running kernel
    ukNext,          \* per kernel thread: its loop variables, p = -1 when out
    ukIndices,       \* indices_
    ukAssigned,      \* the positions of indices_ that have been assigned
    ukDest,          \* the bytes of the output
    ukWriters,       \* per output byte: the threads that have written it
    \* ---- sgd/adagrad_op_hip.cc: SparseAdagrad ----
    saIn,            \* GRAD's slices and slice size, INDICES, launch constants
    saPc,            \* host: "start", "kernel", "done"
    saGrid,          \* hipGridDim_x
    saThPc,          \* per kernel thread: where it is in the kernel
    saI,             \* per kernel thread: i of the grid-stride loop
    saTmp,           \* per kernel thread: mom_new or param_new
    saMom,           \* param_mom: per element, the gradient elements in it
    saParam,         \* param: per element, the gradient elements applied
    \* ---- operators/rmac_regions_op_hip.cc: RMACRegionsKernel ----
    rkIn,            \* N, the launch constants, what the device does with
                     \* a barrier that an exited thread never reaches
    rkPc,            \* host: "start", "kernel", "done"
    rkGrid,          \* hipGridDim_x
    rkThPc,          \* per kernel thread: where it is in the kernel
    rkIndex,         \* per kernel thread: index of the grid-stride loop
    rkSyncs,         \* per kernel thread: __syncthreads() it has passed
    \* ---- core/common_hip.cc, python/pybind_state_hip.cc ----
    gDefaultGPUID,   \* int gDefaultGPUID
    accepted,        \* the latest deviceid below NumHipDevices() that was set
    peerHw,          \* the runtime's peer-access answers
    pyCall           \* the latest call through the Python module: its
                     \* argument and result; for get_hip_peer_access_pattern
                     \* also the query that failed, what
                     \* GetHipPeerAccessPattern returned, and its vector

devVars == <<asan, hwDevices, count, aborted, lastErr, numRet, fullControl,
             gCurrentDevice, rtDevice, devCall>>

bmVars == <<bmIn, bmPc, bmFailed, bmResized, bmLaunched, bmIndices,
            bmNumOfOutput, bmDestDims, bmDest, bmIndicesOut, bmGrid, bmNext>>

lnVars == <<lnIn, lnPc, lnFailed, lnResized, lnHostNext, lnQueue, lnRunning,
            lnBuf>>

opVars == <<opArgs, opIn, opResult, opFailed, opResized, opLaunched, opWritten,
            outDims, lrnInputDims, lrnDesc, rmacNumRois>>

s2dVars == <<s2dIn, s2dPc, s2dFailed, s2dQueue, s2dRunning, s2dOutDims, s2dOut,
             s2dZeroed, s2dAdded, s2dNext>>

agVars == <<agIn, agPc, agGrid, agThPc, agRow, agTmp, agReduces, agSyncs, agMom,
            agMomAdded, agParam>>

pyVars == <<gDefaultGPUID, accepted, peerHw, pyCall>>

saVars == <<saIn, saPc, saGrid, saThPc, saI, saTmp, saMom, saParam>>

ukVars == <<ukIn, ukPc, ukGrid, ukNext, ukIndices, ukAssigned, ukDest, ukWriters>>

smVars == <<smIn, smPc, smGrid, smArgs, smPending, smOut, smWrites>>

rkVars == <<rkIn, rkPc, rkGrid, rkThPc, rkIndex, rkSyncs>>

vars == <<devVars, bmVars, lnVars, opVars, s2dVars, agVars, pyVars, rkVars,
         saVars>>

(***************************************************************************)
(* core/common_hip.cc                                                      *)
(***************************************************************************)
HostThreads == 1..NumHostThreads

\* results of hipGetDeviceCount that NumHipDevices tells apart, and one
\* (hipErrorInvalidDevice) standing for every result it has no case for
HipErrors == {"hipSuccess", "hipErrorNoDevice", "hipErrorInsufficientDriver",
              "hipErrorInitializationError", "hipErrorUnknown",
              "hipErrorMemoryAllocation", "hipErrorInvalidDevice"}

\* the cases of the switch that set count = 0, without the unknown-error case
ZeroDeviceErrorNoUnknown(err, asanBuild) ==
    \/ err \in {"hipErrorNoDevice", "hipErrorInsufficientDriver",
                "hipErrorInitializationError"}
    \/ err = "hipErrorMemoryAllocation" /\ asanBuild

\* the cases of the switch in NumHipDevices that set count = 0
ZeroDeviceError(err, asanBuild) ==
    \/ err \in {"hipErrorNoDevice", "hipErrorInsufficientDriver",
                "hipErrorInitializationError", "hipErrorUnknown"}
    \/ err = "hipErrorMemoryAllocation" /\ asanBuild

\* hipGetDeviceCount succeeds only with the device count written
NumHipDevices ==
    /\ ~aborted
    /\ IF count < 0
       THEN \E err \in HipErrors :
              /\ lastErr' = err
              /\ IF err = "hipSuccess"
                 THEN /\ count' = hwDevices
                      /\ numRet' = hwDevices
                      /\ aborted' = FALSE
                 ELSE IF ZeroDeviceError(err, asan)
                 THEN /\ count' = 0
                      /\ numRet' = 0
                      /\ aborted' = FALSE
                 ELSE /\ aborted' = TRUE
                      /\ UNCHANGED <<count, numRet>>
       ELSE /\ numRet' = count
            /\ UNCHANGED <<count, aborted, lastErr>>
    /\ UNCHANGED <<asan, hwDevices, fullControl, gCurrentDevice, rtDevice, devCall>>
    /\ UNCHANGED <<bmVars, lnVars, opVars, s2dVars, agVars, pyVars, rkVars, saVars, ukVars, smVars>>

\* gCurrentDevice after CaffeHipSetDevice(id) when the cache is written
\* before the runtime call is enforced
SetDeviceCacheEager(cur, id, ok) == id

\* gCurrentDevice after CaffeHipSetDevice(id) under full device control:
\* HIP_ENFORCE throws before the assignment when hipSetDevice fails
SetDeviceCache(cur, id, ok) ==
    IF cur # id /\ ~ok THEN cur ELSE id

\* runtime calls CaffeHipSetDevice(id) issues under full device control
SetDeviceCalls(cur, id) == IF cur # id THEN 1 ELSE 0

\* hipSetDevice(id) can succeed only for a device that exists
SetOutcomes(id) == IF id >= 0 /\ id < hwDevices THEN {TRUE, FALSE} ELSE {FALSE}

\* hipGetDevice can succeed only when there is a device
GetOutcomes == IF hwDevices > 0 THEN {TRUE, FALSE} ELSE {FALSE}

CaffeHipGetDevice(t) ==
    /\ ~aborted
    /\ \E ok \in GetOutcomes :
         IF fullControl
         THEN IF gCurrentDevice[t] < 0
              THEN /\ gCurrentDevice' =
                        IF ok THEN [gCurrentDevice EXCEPT ![t] = rtDevice[t]]
                              ELSE gCurrentDevice
                   /\ devCall' = [op |-> "get", thread |-> t, arg |-> -1,
                                  before |-> gCurrentDevice[t], calls |-> 1,
                                  threw |-> ~ok,
                                  ret |-> IF ok THEN rtDevice[t] ELSE -1]
              ELSE /\ UNCHANGED gCurrentDevice
                   /\ devCall' = [op |-> "get", thread |-> t, arg |-> -1,
                                  before |-> gCurrentDevice[t], calls |-> 0,
                                  threw |-> FALSE, ret |-> gCurrentDevice[t]]
         ELSE /\ UNCHANGED gCurrentDevice
              /\ devCall' = [op |-> "get", thread |-> t, arg |-> -1,
                             before |-> gCurrentDevice[t], calls |-> 1,
                             threw |-> ~ok,
                             ret |-> IF ok THEN rtDevice[t] ELSE -1]
    /\ UNCHANGED <<asan, hwDevices, count, aborted, lastErr, numRet, fullControl,
                   rtDevice>>
    /\ UNCHANGED <<bmVars, lnVars, opVars, s2dVars, agVars, pyVars, rkVars, saVars, ukVars, smVars>>

CaffeHipSetDevice(t, id) ==
    /\ ~aborted
    /\ \E ok \in SetOutcomes(id) :
         IF fullControl
         THEN LET calls == SetDeviceCalls(gCurrentDevice[t], id) IN
              /\ gCurrentDevice' = [gCurrentDevice EXCEPT
                                      ![t] = SetDeviceCache(gCurrentDevice[t], id, ok)]
              /\ rtDevice' = IF calls = 1 /\ ok
                             THEN [rtDevice EXCEPT ![t] = id] ELSE rtDevice
              /\ devCall' = [op |-> "set", thread |-> t, arg |-> id,
                             before |-> gCurrentDevice[t], calls |-> calls,
                             threw |-> (calls = 1 /\ ~ok), ret |-> -1]
         ELSE /\ UNCHANGED gCurrentDevice
              /\ rtDevice' = IF ok THEN [rtDevice EXCEPT ![t] = id] ELSE rtDevice
              /\ devCall' = [op |-> "set", thread |-> t, arg |-> id,
                             before |-> gCurrentDevice[t], calls |-> 1,
                             threw |-> ~ok, ret |-> -1]
    /\ UNCHANGED <<asan, hwDevices, count, aborted, lastErr, numRet, fullControl>>
    /\ UNCHANGED <<bmVars, lnVars, opVars, s2dVars, agVars, pyVars, rkVars, saVars, ukVars, smVars>>

DevIdle ==
    /\ asan = FALSE
    /\ hwDevices = 0
    /\ count = -1
    /\ aborted = FALSE
    /\ lastErr = "none"
    /\ numRet = -1
    /\ fullControl = FALSE
    /\ gCurrentDevice = [t \in HostThreads |-> -1]
    /\ rtDevice = [t \in HostThreads |-> 0]
    /\ devCall = [op |-> "none", thread |-> 1, arg |-> -1, before |-> -1,
                  calls |-> 0, threw |-> FALSE, ret |-> -1]

DevInit ==
    /\ asan \in BOOLEAN
    /\ hwDevices \in 0..MaxDevices
    /\ count = -1
    /\ aborted = FALSE
    /\ lastErr = "none"
    /\ numRet = -1
    /\ fullControl \in BOOLEAN
    /\ gCurrentDevice = [t \in HostThreads |-> -1]
    /\ rtDevice = [t \in HostThreads |-> 0]
    /\ devCall = [op |-> "none", thread |-> 1, arg |-> -1, before |-> -1,
                  calls |-> 0, threw |-> FALSE, ret |-> -1]

DevNext ==
    \/ NumHipDevices
    \/ \E t \in HostThreads : CaffeHipGetDevice(t)
    \/ \E t \in HostThreads, id \in -1..MaxDevices : CaffeHipSetDevice(t, id)

(***************************************************************************)
(* core/common_hip.cc: SetDefaultGPUID, GetDefaultGPUID,                   *)
(* GetHipPeerAccessPattern; python/pybind_state_hip.cc: the functions      *)
(* addHIPGlobalMethods binds to them.                                      *)
(***************************************************************************)
PyDevices == 0..(hwDevices - 1)

\* the queries of the double loop of GetHipPeerAccessPattern that call the
\* runtime: i # j
PeerQueries == {q \in PyDevices \X PyDevices : q[1] # q[2]}

\* the runtime's answer to hipDeviceCanAccessPeer(&can_access, i, j); a
\* device is no peer of itself
HwPeer(i, j) == IF i = j THEN FALSE ELSE peerHw[<<i, j>>]

\* in place of a failed query: no query failed; the device-count query failed
NoQuery == <<-1, -1>>
CountQuery == <<-1, 0>>

\* the check of SetDefaultGPUID letting the device count itself through
DefaultIdAcceptedUpTo(deviceid, n) == deviceid <= n

\* CAFFE_ENFORCE_LT(deviceid, NumHipDevices(), ...)
DefaultIdAccepted(deviceid, n) == deviceid < n

\* SetDefaultGPUID(deviceid), with the call of NumHipDevices() in its check:
\* the first call in the process asks the runtime and may be fatal
SetDefaultGPUID(deviceid) ==
    /\ ~aborted
    /\ \E err \in (IF count < 0 THEN HipErrors ELSE {"none"}) :
         LET n == IF count >= 0 THEN count
                  ELSE IF err = "hipSuccess" THEN hwDevices ELSE 0
             fatal == count < 0 /\ err # "hipSuccess" /\ ~ZeroDeviceError(err, asan)
             ok == ~fatal /\ DefaultIdAccepted(deviceid, n)
         IN  /\ aborted' = fatal
             /\ count' = IF fatal THEN count ELSE n
             /\ numRet' = IF fatal THEN numRet ELSE n
             /\ lastErr' = IF count < 0 THEN err ELSE lastErr
             /\ gDefaultGPUID' = IF ok THEN deviceid ELSE gDefaultGPUID
             /\ accepted' = IF ~fatal /\ deviceid < n THEN deviceid ELSE accepted
             /\ pyCall' = [op |-> "set_default_gpu_id", arg |-> deviceid,
                           before |-> gDefaultGPUID,
                           result |-> IF fatal THEN "abort"
                                      ELSE IF ok THEN "ok" ELSE "throw",
                           ret |-> -1, failed |-> NoQuery, peerRet |-> "none",
                           pattern |-> <<>>]
    /\ UNCHANGED <<asan, hwDevices, fullControl, gCurrentDevice, rtDevice, devCall>>
    /\ UNCHANGED peerHw
    /\ UNCHANGED <<bmVars, lnVars, opVars, s2dVars, agVars, rkVars, saVars, ukVars, smVars>>

\* int GetDefaultGPUID() { return gDefaultGPUID; }
GetDefaultGPUID ==
    /\ ~aborted
    /\ pyCall' = [op |-> "get_default_gpu_id", arg |-> -1, before |-> gDefaultGPUID,
                  result |-> "ok", ret |-> gDefaultGPUID, failed |-> NoQuery,
                  peerRet |-> "none", pattern |-> <<>>]
    /\ UNCHANGED <<gDefaultGPUID, accepted, peerHw>>
    /\ UNCHANGED <<devVars, bmVars, lnVars, opVars, s2dVars, agVars, rkVars, saVars, ukVars, smVars>>

\* (i, j) comes before (k, l) in the double loop
PeerBefore(i, j, k, l) == i < k \/ (i = k /\ j < l)

\* the entry with the diagonal taken from the runtime as well
PeerEntryAsked(i, j) == HwPeer(i, j)

\* (*pattern)[i][j]: can_access stays true for i = j, else the runtime's answer
PeerEntry(i, j) == IF i = j THEN TRUE ELSE HwPeer(i, j)

\* GetHipPeerAccessPattern(&pattern) on an empty vector: what it returns and
\* what it leaves in the vector, when the count query succeeds or not and
\* failed is the first peer query that fails (NoQuery: no query fails)
GetHipPeerAccessPattern(countOk, failed) ==
    IF ~countOk THEN [ret |-> FALSE, pattern |-> <<>>]
    ELSE [ret |-> failed = NoQuery,
          pattern |-> [q \in PyDevices \X PyDevices |->
                         IF failed = NoQuery
                            \/ PeerBefore(q[1], q[2], failed[1], failed[2])
                         THEN PeerEntry(q[1], q[2]) ELSE FALSE]]

\* the Python function get_hip_peer_access_pattern: a fresh vector, the call,
\* CAFFE_ENFORCE of its result, the vector returned
get_hip_peer_access_pattern ==
    /\ ~aborted
    /\ \E countOk \in BOOLEAN, failed \in PeerQueries \cup {NoQuery} :
         LET got == GetHipPeerAccessPattern(countOk, failed) IN
         pyCall' = [op |-> "get_hip_peer_access_pattern", arg |-> -1,
                    before |-> gDefaultGPUID,
                    result |-> IF got.ret THEN "ok" ELSE "throw",
                    ret |-> IF got.ret THEN got.pattern ELSE <<>>,
                    failed |-> IF ~countOk THEN CountQuery ELSE failed,
                    peerRet |-> IF got.ret THEN "true" ELSE "false",
                    pattern |-> got.pattern]
    /\ UNCHANGED <<gDefaultGPUID, accepted, peerHw>>
    /\ UNCHANGED <<devVars, bmVars, lnVars, opVars, s2dVars, agVars, rkVars, saVars, ukVars, smVars>>

PyStartValues ==
    /\ gDefaultGPUID = 0
    /\ accepted = 0
    /\ pyCall = [op |-> "none", arg |-> -1, before |-> 0, result |-> "none",
                 ret |-> -1, failed |-> NoQuery, peerRet |-> "none",
                 pattern |-> <<>>]

\* the runtime's peer-access answers for the devices of the machine
PyInit ==
    /\ peerHw \in [PeerQueries -> BOOLEAN]
    /\ PyStartValues

PyIdle ==
    /\ peerHw = <<>>
    /\ PyStartValues

PyNext ==
    \/ NumHipDevices
    \/ \E deviceid \in -1..(MaxDevices + 1) : SetDefaultGPUID(deviceid)
    \/ GetDefaultGPUID
    \/ get_hip_peer_access_pattern

(***************************************************************************)
(* C11: SetDefaultGPUID(d) is accepted exactly when d is smaller than      *)
(* NumHipDevices(); a rejected call throws and leaves the default id as it *)
(* was; the default id, which GetDefaultGPUID returns, is the most         *)
(* recently accepted id, or 0 when no call was accepted.                   *)
(***************************************************************************)
C11_DefaultId ==
    /\ gDefaultGPUID = accepted
    /\ (pyCall.op = "set_default_gpu_id" /\ pyCall.result = "ok")
          => (pyCall.arg < count /\ gDefaultGPUID = pyCall.arg)
    /\ (pyCall.op = "set_default_gpu_id" /\ pyCall.result = "throw")
          => (pyCall.arg >= count /\ count >= 0 /\ gDefaultGPUID = pyCall.before)
    /\ (pyCall.op = "get_default_gpu_id") => (pyCall.ret = accepted)

\* with two devices, id 1 was accepted and then id 2 rejected
C11_Witness ==
    /\ pyCall.op = "set_default_gpu_id" /\ pyCall.result = "throw"
    /\ pyCall.arg = 2 /\ count = 2 /\ gDefaultGPUID = 1 /\ accepted = 1

(***************************************************************************)
(* C12: GetHipPeerAccessPattern returns true only with the vector filled   *)
(* as a gpu_count x gpu_count matrix whose diagonal is true and whose      *)
(* entry [i][j], i # j, is the runtime's peer-access answer for i to j; if *)
(* the device-count query or any peer query fails it returns false, and    *)
(* the Python function raises instead of returning a matrix.               *)
(***************************************************************************)
C12_PeerPattern ==
    (pyCall.op = "get_hip_peer_access_pattern") =>
       /\ (pyCall.peerRet = "true") =>
             /\ pyCall.failed = NoQuery
             /\ DOMAIN pyCall.pattern = PyDevices \X PyDevices
             /\ \A i \in PyDevices : pyCall.pattern[<<i, i>>]
             /\ \A q \in PeerQueries : pyCall.pattern[q] = peerHw[q]
       /\ (pyCall.failed # NoQuery) => (pyCall.peerRet = "false")
       /\ (pyCall.peerRet = "false") <=> (pyCall.result = "throw")
       /\ (pyCall.peerRet = "true")
             <=> (pyCall.result = "ok" /\ pyCall.ret = pyCall.pattern)

\* two devices, peer access one way only, every query answered
C12_Witness ==
    /\ pyCall.op = "get_hip_peer_access_pattern" /\ pyCall.result = "ok"
    /\ hwDevices = 2 /\ peerHw[<<0, 1>>] /\ ~peerHw[<<1, 0>>]
    /\ pyCall.ret[<<0, 0>>] /\ pyCall.ret[<<0, 1>>] /\ ~pyCall.ret[<<1, 0>>]

\* the second peer query failed: false, and the Python function raised
C12_WitnessFailed ==
    /\ pyCall.op = "get_hip_peer_access_pattern" /\ pyCall.result = "throw"
    /\ hwDevices = 2 /\ pyCall.failed = <<1, 0>> /\ pyCall.peerRet = "false"

(* Tensor helpers (shapes are sequences of dimensions, data is flat and    *)
(* indexed from 0).                                                        *)
(***************************************************************************)
RECURSIVE Prod(_)
Prod(dims) == IF dims = <<>> THEN 1 ELSE dims[1] * Prod(Tail(dims))

\* Tensor::size_from_dim(k): the product of dims[k..]
SizeFromDim(dims, k) == Prod(SubSeq(dims, k + 1, Len(dims)))

\* Tensor::size_to_dim(k): the product of dims[0..k)
SizeToDim(dims, k) == Prod(SubSeq(dims, 1, k))

Min2(a, b) == IF a < b THEN a ELSE b

(***************************************************************************)
(* operators/boolean_mask_ops_hip.cc: BooleanMaskOp<HIPContext>,           *)
(* BooleanMaskCopyKernel                                                   *)
(***************************************************************************)
BmThreads == (0..(BmMaxBlocks - 1)) \X (0..(BmMaxThreads - 1))

\* the entry checks with the rank check of the mask weakened to ndim >= 1
BooleanMaskCheckLooseMask(srcDims, maskDims) ==
    IF ~(Len(srcDims) >= 1) THEN "src.ndim() >= 1"
    ELSE IF ~(Len(maskDims) >= 1) THEN "mask.ndim() == 1"
    ELSE IF ~(srcDims[1] = maskDims[1]) THEN "src.dims()[0] == mask.dims()[0]"
    ELSE "none"

\* the three CAFFE_ENFORCE at the head of RunOnDevice, in their order: the
\* one that fails, or "none"
BooleanMaskCheck(srcDims, maskDims) ==
    IF ~(Len(srcDims) >= 1) THEN "src.ndim() >= 1"
    ELSE IF ~(Len(maskDims) = 1) THEN "mask.ndim() == 1"
    ELSE IF ~(srcDims[1] = maskDims[1]) THEN "src.dims()[0] == mask.dims()[0]"
    ELSE "none"

\* hipcub::DeviceSelect::Flagged over a counting iterator: the positions of
\* the first n flags that are set, in increasing order
RECURSIVE SelectFlagged(_, _)
SelectFlagged(flags, n) ==
    IF n = 0 THEN <<>>
    ELSE IF flags[n] THEN Append(SelectFlagged(flags, n - 1), n - 1)
    ELSE SelectFlagged(flags, n - 1)

\* the copy kernel with the source row taken at the output position
CopySrcBaseIdentity(indices, i, numBytes) == i * numBytes

\* BooleanMaskCopyKernel: srcBase = indices[i] * numBytes
CopySrcBase(indices, i, numBytes) == indices[i + 1] * numBytes

\* BooleanMaskCopyKernel: destBase = i * numBytes
CopyDestBase(i, numBytes) == i * numBytes

\* bytes of one source row: src.size_from_dim(1) * src.meta().itemsize()
BmRowBytes(in) == SizeFromDim(in.srcDims, 1) * in.itemsize

\* the first (i, j) of thread (b, t) from row i on that is inside the loops
\* for(i = hipBlockIdx_x; i < numOfOutput; i += hipGridDim_x)
\*   for(j = hipThreadIdx_x; j < numBytes; j += hipBlockDim_x)
BmFirstFrom(i, t, numOfOutput, numBytes) ==
    IF i < numOfOutput /\ t < numBytes THEN <<i, t>> ELSE <<"done">>

\* the (i, j) after (i, j): the inner loop's next j, else the next row
BmAfter(pos, t, grid, block, numOfOutput, numBytes) ==
    IF pos[2] + block < numBytes THEN <<pos[1], pos[2] + block>>
    ELSE BmFirstFrom(pos[1] + grid, t, numOfOutput, numBytes)

\* RunOnDevice, host side: the checks, the selection, the resizes and the
\* launch of the copy kernel
BooleanMaskRun ==
    /\ bmPc = "start"
    /\ LET failed == BooleanMaskCheck(bmIn.srcDims, bmIn.maskDims) IN
       IF failed # "none"
       THEN /\ bmPc' = "throw"
            /\ bmFailed' = failed
            /\ UNCHANGED <<bmResized, bmLaunched, bmIndices, bmNumOfOutput,
                           bmDestDims, bmDest, bmIndicesOut, bmGrid, bmNext>>
       ELSE LET outerSize == bmIn.maskDims[1]
                selected == SelectFlagged(bmIn.mask, outerSize)
                numOfOutput == Len(selected)
                dims == [bmIn.srcDims EXCEPT ![1] = numOfOutput]
                numBytes == BmRowBytes(bmIn)
                grid == Min2(numOfOutput, bmIn.maxBlocks)
            IN  /\ bmFailed' = "none"
                /\ bmIndices' = selected
                /\ bmNumOfOutput' = numOfOutput
                /\ bmDestDims' = dims
                /\ bmDest' = [k \in 0..(Prod(dims) * bmIn.itemsize - 1) |-> -1]
                /\ bmResized' = {"indices_", "scratch_", "dest"}
                                \cup (IF bmIn.outputs = 2 THEN {"indicesOut"} ELSE {})
                /\ bmIndicesOut' = IF bmIn.outputs = 2
                                   THEN [k \in 1..numOfOutput |-> -1] ELSE <<>>
                /\ IF numOfOutput > 0
                   THEN /\ bmPc' = "kernel"
                        /\ bmGrid' = grid
                        /\ bmLaunched' =
                              <<"Flagged", "Flagged", "Copy", "BooleanMaskCopyKernel">>
                              \o (IF bmIn.outputs = 2 THEN <<"CopyFrom">> ELSE <<>>)
                        /\ bmNext' = [th \in BmThreads |->
                              IF th[1] < grid /\ th[2] < bmIn.numThreads
                              THEN BmFirstFrom(th[1], th[2], numOfOutput, numBytes)
                              ELSE <<"done">>]
                   ELSE /\ bmPc' = "done"
                        /\ bmLaunched' = <<"Flagged", "Flagged", "Copy">>
                        /\ UNCHANGED <<bmGrid, bmNext>>
    /\ UNCHANGED bmIn
    /\ UNCHANGED <<devVars, lnVars, opVars, s2dVars, agVars, pyVars, rkVars, saVars, ukVars, smVars>>

\* one iteration of the inner loop of BooleanMaskCopyKernel in thread th
BooleanMaskCopyKernel(th) ==
    /\ bmPc = "kernel"
    /\ bmNext[th] # <<"done">>
    /\ LET i == bmNext[th][1]
           j == bmNext[th][2]
           numBytes == BmRowBytes(bmIn)
           srcBase == CopySrcBase(bmIndices, i, numBytes)
           destBase == CopyDestBase(i, numBytes)
       IN  /\ bmDest' = [bmDest EXCEPT ![destBase + j] = bmIn.src[srcBase + j]]
           /\ bmNext' = [bmNext EXCEPT ![th] =
                  BmAfter(bmNext[th], th[2], bmGrid, bmIn.numThreads,
                          bmNumOfOutput, numBytes)]
    /\ UNCHANGED <<bmIn, bmPc, bmFailed, bmResized, bmLaunched, bmIndices,
                   bmNumOfOutput, bmDestDims, bmIndicesOut, bmGrid>>
    /\ UNCHANGED <<devVars, lnVars, opVars, s2dVars, agVars, pyVars, rkVars, saVars, ukVars, smVars>>

\* the kernel has ended: the stream goes on to Output(1)->CopyFrom(indices_)
BooleanMaskKernelEnd ==
    /\ bmPc = "kernel"
    /\ \A th \in BmThreads : bmNext[th] = <<"done">>
    /\ bmPc' = IF bmIn.outputs = 2 THEN "copy" ELSE "done"
    /\ UNCHANGED <<bmIn, bmFailed, bmResized, bmLaunched, bmIndices,
                   bmNumOfOutput, bmDestDims, bmDest, bmIndicesOut, bmGrid, bmNext>>
    /\ UNCHANGED <<devVars, lnVars, opVars, s2dVars, agVars, pyVars, rkVars, saVars, ukVars, smVars>>

\* Output(1)->CopyFrom(indices_, &context_)
BooleanMaskCopyIndices ==
    /\ bmPc = "copy"
    /\ bmIndicesOut' = bmIndices
    /\ bmPc' = "done"
    /\ UNCHANGED <<bmIn, bmFailed, bmResized, bmLaunched, bmIndices,
                   bmNumOfOutput, bmDestDims, bmDest, bmGrid, bmNext>>
    /\ UNCHANGED <<devVars, lnVars, opVars, s2dVars, agVars, pyVars, rkVars, saVars, ukVars, smVars>>

\* shapes of Input(0): rank 0, 1 and 2
BmSrcShapes ==
    {<<>>} \cup {<<n>> : n \in 0..BmMaxOuter}
           \cup {<<n, m>> : n \in 0..BmMaxOuter, m \in 1..BmMaxBytes}

\* shapes of Input(1): rank 0, 1 and 2
BmMaskShapes ==
    {<<>>} \cup {<<n>> : n \in 0..BmMaxOuter} \cup {<<n, 1>> : n \in 1..BmMaxOuter}

BmInputs ==
    {in \in [srcDims : BmSrcShapes, maskDims : BmMaskShapes, itemsize : {1, 2},
             outputs : {1, 2}, maxBlocks : 1..BmMaxBlocks,
             numThreads : 1..BmMaxThreads] :
        SizeFromDim(in.srcDims, 1) * in.itemsize <= BmMaxBytes}

BmStartValues ==
    /\ bmPc = "start"
    /\ bmFailed = "none"
    /\ bmResized = {}
    /\ bmLaunched = <<>>
    /\ bmIndices = <<>>
    /\ bmNumOfOutput = 0
    /\ bmDestDims = <<0>>
    /\ bmDest = <<>>
    /\ bmIndicesOut = <<>>
    /\ bmGrid = 0
    /\ bmNext = [th \in BmThreads |-> <<"done">>]

\* the source holds a different byte at every position
BmInit ==
    /\ \E in \in BmInputs :
         \E mask \in [1..Prod(in.maskDims) -> BOOLEAN] :
            bmIn = [srcDims |-> in.srcDims, maskDims |-> in.maskDims,
                    itemsize |-> in.itemsize, outputs |-> in.outputs,
                    maxBlocks |-> in.maxBlocks, numThreads |-> in.numThreads,
                    mask |-> mask,
                    src |-> [k \in 0..(Prod(in.srcDims) * in.itemsize - 1) |-> k + 1]]
    /\ BmStartValues

BmIdle ==
    /\ bmIn = [srcDims |-> <<>>, maskDims |-> <<>>, itemsize |-> 1, outputs |-> 1,
               maxBlocks |-> 1, numThreads |-> 1, mask |-> <<>>, src |-> <<>>]
    /\ BmStartValues

BmNext ==
    \/ BooleanMaskRun
    \/ \E th \in BmThreads : BooleanMaskCopyKernel(th)
    \/ BooleanMaskKernelEnd
    \/ BooleanMaskCopyIndices

(***************************************************************************)
(* C3: BooleanMask rejects, before it resizes any tensor or enqueues any   *)
(* device work, every input whose source has rank < 1, whose mask has      *)
(* rank # 1, or whose source's first dimension differs from the mask's     *)
(* length (and rejects no other input).                                    *)
(***************************************************************************)
C3_Invalid ==
    \/ Len(bmIn.srcDims) < 1
    \/ Len(bmIn.maskDims) # 1
    \/ bmIn.srcDims[1] # bmIn.maskDims[1]

C3_RejectAtEntry ==
    bmPc # "start" =>
       /\ C3_Invalid <=> bmPc = "throw"
       /\ bmPc = "throw" => (bmResized = {} /\ bmLaunched = <<>> /\ bmDest = <<>>)

\* a mask of rank 2 was rejected with nothing resized
C3_Witness ==
    /\ bmPc = "throw" /\ Len(bmIn.srcDims) >= 1 /\ Len(bmIn.maskDims) = 2
    /\ bmFailed = "mask.ndim() == 1" /\ bmResized = {}

(***************************************************************************)
(* C7: BooleanMask's output has as many rows as the mask has true entries  *)
(* and the source's remaining dimensions; output row i is a byte-exact     *)
(* copy of the source row at the i-th true entry, for every grid and block *)
(* size; an all-false mask gives 0 rows.                                   *)
(***************************************************************************)
C7_TrueCount == Cardinality({p \in 1..Len(bmIn.mask) : bmIn.mask[p]})

\* the 0-based position of the i-th (from 0) true entry of the mask
C7_TruePos(i) ==
    CHOOSE p \in 0..(Len(bmIn.mask) - 1) :
       /\ bmIn.mask[p + 1]
       /\ Cardinality({q \in 1..p : bmIn.mask[q]}) = i

C7_MaskedCopy ==
    bmPc = "done" =>
       LET rowBytes == Prod(Tail(bmIn.srcDims)) * bmIn.itemsize IN
       /\ bmDestDims = <<C7_TrueCount>> \o Tail(bmIn.srcDims)
       /\ DOMAIN bmDest = 0..(C7_TrueCount * rowBytes - 1)
       /\ \A i \in 0..(C7_TrueCount - 1), j \in 0..(rowBytes - 1) :
             bmDest[i * rowBytes + j] = bmIn.src[C7_TruePos(i) * rowBytes + j]
       /\ bmIn.outputs = 2 =>
             /\ Len(bmIndicesOut) = C7_TrueCount
             /\ \A i \in 0..(C7_TrueCount - 1) : bmIndicesOut[i + 1] = C7_TruePos(i)

\* a run that dropped a row in the middle, with more output rows than blocks
\* and more bytes in a row than threads in a block
C7_Witness ==
    /\ bmPc = "done"
    /\ Len(bmIn.mask) = 3 /\ bmIn.mask[1] /\ ~bmIn.mask[2] /\ bmIn.mask[3]
    /\ bmGrid = 1 /\ bmIn.numThreads = 1 /\ BmRowBytes(bmIn) = 2
    /\ bmDestDims[1] = 2

\* an all-false mask gave an output of 0 rows
C7_WitnessEmpty ==
    /\ bmPc = "done" /\ Len(bmIn.mask) = 2 /\ ~bmIn.mask[1] /\ ~bmIn.mask[2]
    /\ bmDestDims[1] = 0

(***************************************************************************)
(* operators/layer_norm_op_hip.cc: LayerNormOp<HIPContext>,                *)
(* LayerNormGradientOp<HIPContext>.  The host enqueues the steps of one    *)
(* run on a stream; the device executes the steps of a stream one after    *)
(* the other, in the order of their enqueueing.  A buffer's value is named *)
(* as the comments of the source name it.                                  *)
(***************************************************************************)
LnStreams == {"ctx", "other"}

\* Tensor::canonical_axis_index: the axis must lie in [-ndim, ndim)
CanonicalAxisOk(axis, ndim) == axis >= -ndim /\ axis < ndim

CanonicalAxisIndex(axis, ndim) == IF axis < 0 THEN axis + ndim ELSE axis

\* a step: the buffers it reads with the values it needs there, the scratch
\* it takes when it starts, the values it leaves when it ends
LnStep(name, reads, takes, writes) ==
    [name |-> name, reads |-> reads, takes |-> takes, writes |-> writes]

\* allocScratchAndReduce: a segmented sum of `from` into `to`, with scratch_
\* as its temporary storage
LnReduce(name, from, fromVal, to, toVal) ==
    LnStep(name, {<<from, fromVal>>, <<"seg_indices_", "segs">>, <<"scratch_", name>>},
           {<<"scratch_", name>>}, {<<to, toVal>>})

LnCopySegs ==
    LnStep("CopyBytes_segs", {}, {}, {<<"seg_indices_", "segs">>})

\* the steps LayerNormOp::DoRunWithType<float> enqueues, in its order
LayerNormSteps(right) ==
    <<LnCopySegs>> \o
    (IF right = 1
     THEN << LnStep("CopyFrom_input", {<<"input", "X">>}, {}, {<<"mean", "E(X)">>}),
             LnStep("Set_stdev", {}, {}, {<<"stdev", "stdev">>}) >>
     ELSE << LnReduce("reduce_input", "input", "X", "mean", "sum(X)"),
             LnStep("Scale_mean", {<<"mean", "sum(X)">>}, {}, {<<"mean", "E(X)">>}),
             LnReduce("reduce_sqr_input", "input", "X", "stdev", "sum(X^2)"),
             LnStep("Scale_stdev", {<<"stdev", "sum(X^2)">>}, {},
                    {<<"stdev", "E(X^2)">>}),
             LnStep("sqrtXMinusYSquaredKernel",
                    {<<"stdev", "E(X^2)">>, <<"mean", "E(X)">>}, {},
                    {<<"stdev", "stdev">>}) >>)
    \o << LnStep("normalizeKernel",
                 {<<"input", "X">>, <<"mean", "E(X)">>, <<"stdev", "stdev">>}, {},
                 {<<"output", "normalized">>}) >>

\* the steps LayerNormGradientOp::DoRunWithType<float> enqueues, in its order
LayerNormGradientSteps ==
    << LnCopySegs,
       LnStep("zTimesXminusYbroadcast",
              {<<"norm_inputs", "X">>, <<"means", "mean">>, <<"dout", "dout">>}, {},
              {<<"gscratch_", "temp1">>}),
       LnReduce("reduce_gscratch", "gscratch_", "temp1", "dstdev_", "reduce(temp1)"),
       LnStep("normalizeByNegStdev_var",
              {<<"dstdev_", "reduce(temp1)">>, <<"stdev_in", "stdev">>}, {},
              {<<"dstdev_", "dstdev">>}),
       LnReduce("reduce_dout", "dout", "dout", "dmean_", "reduce(dout)"),
       LnStep("Mul", {<<"means", "mean">>, <<"dstdev_", "dstdev">>}, {},
              {<<"gscratch_", "mean*dstdev">>}),
       LnStep("Add", {<<"dmean_", "reduce(dout)">>, <<"gscratch_", "mean*dstdev">>}, {},
              {<<"dmean_", "reduce(dout)+mean*dstdev">>}),
       LnStep("normalizeByNegStdev",
              {<<"dmean_", "reduce(dout)+mean*dstdev">>, <<"stdev_in", "stdev">>}, {},
              {<<"dmean_", "dmean">>}),
       LnStep("gradientMegaKernel",
              {<<"stdev_in", "stdev">>, <<"norm_inputs", "X">>, <<"dstdev_", "dstdev">>,
               <<"dmean_", "dmean">>, <<"dout", "dout">>}, {},
              {<<"ginput", "ginput">>}) >>

\* size_from_dim(canonical_axis) of the run's input
LnRight == SizeFromDim(lnIn.dims, CanonicalAxisIndex(lnIn.axis, Len(lnIn.dims)))

LnProgram ==
    IF lnIn.op = "LayerNorm" THEN LayerNormSteps(LnRight) ELSE LayerNormGradientSteps

\* the segmented reduce of gscratch_ enqueued on a stream of its own
LnStreamOfSplit(op, name) == IF name = "reduce_gscratch" THEN "other" ELSE "ctx"

\* the stream a step is enqueued on: context_.hip_stream(), or the context
\* itself, for every step
LnStreamOf(op, name) == "ctx"

LnBuffers == {"input", "output", "mean", "stdev", "seg_indices_", "scratch_",
              "dout", "norm_inputs", "means", "stdev_in", "ginput", "dmean_",
              "dstdev_", "gscratch_"}

\* the inputs hold their values, every other buffer holds what an earlier
\* run left there
LnBufStart ==
    [b \in LnBuffers |->
        CASE b \in {"input", "norm_inputs"} -> "X"
          [] b = "dout" -> "dout"
          [] b = "means" -> "mean"
          [] b = "stdev_in" -> "stdev"
          [] OTHER -> "stale"]

\* LayerNormOp::DoRunWithType<float> up to the first enqueue: the rank
\* check, the axis, the resizes
LayerNormRun ==
    /\ lnPc = "start"
    /\ lnIn.op = "LayerNorm"
    /\ IF ~(Len(lnIn.dims) >= 2)
       THEN /\ lnPc' = "throw"
            /\ lnFailed' = "LayerNorm requires input dim >= 2"
            /\ UNCHANGED lnResized
       ELSE IF ~CanonicalAxisOk(lnIn.axis, Len(lnIn.dims))
       THEN /\ lnPc' = "throw"
            /\ lnFailed' = "canonical_axis_index"
            /\ UNCHANGED lnResized
       ELSE /\ lnPc' = "enqueue"
            /\ lnFailed' = "none"
            /\ lnResized' = {"output", "mean", "stdev", "seg_indices_"}
    /\ UNCHANGED <<lnIn, lnHostNext, lnQueue, lnRunning, lnBuf>>
    /\ UNCHANGED <<devVars, bmVars, opVars, s2dVars, agVars, pyVars, rkVars, saVars, ukVars, smVars>>

\* LayerNormGradientOp::DoRunWithType<float> up to the first enqueue: the
\* axis, the resizes; there is no rank check
LayerNormGradientRun ==
    /\ lnPc = "start"
    /\ lnIn.op = "LayerNormGradient"
    /\ IF ~CanonicalAxisOk(lnIn.axis, Len(lnIn.dims))
       THEN /\ lnPc' = "throw"
            /\ lnFailed' = "canonical_axis_index"
            /\ UNCHANGED lnResized
       ELSE /\ lnPc' = "enqueue"
            /\ lnFailed' = "none"
            /\ lnResized' = {"ginput", "dmean_", "dstdev_", "gscratch_", "seg_indices_"}
    /\ UNCHANGED <<lnIn, lnHostNext, lnQueue, lnRunning, lnBuf>>
    /\ UNCHANGED <<devVars, bmVars, opVars, s2dVars, agVars, pyVars, rkVars, saVars, ukVars, smVars>>

\* the host enqueues the next step of the run (a reduce resizes scratch_
\* first), and returns true after the last one
LnEnqueue ==
    /\ lnPc = "enqueue"
    /\ IF lnHostNext <= Len(LnProgram)
       THEN LET step == LnProgram[lnHostNext]
                stream == LnStreamOf(lnIn.op, step.name)
            IN  /\ lnQueue' = [lnQueue EXCEPT ![stream] = Append(@, lnHostNext)]
                /\ lnHostNext' = lnHostNext + 1
                /\ lnResized' = IF step.takes # {}
                                THEN lnResized \cup {"scratch_"} ELSE lnResized
                /\ UNCHANGED lnPc
       ELSE /\ lnPc' = "done"
            /\ UNCHANGED <<lnQueue, lnHostNext, lnResized>>
    /\ UNCHANGED <<lnIn, lnFailed, lnRunning, lnBuf>>
    /\ UNCHANGED <<devVars, bmVars, opVars, s2dVars, agVars, pyVars, rkVars, saVars, ukVars, smVars>>

LnApply(buf, writes) ==
    [b \in LnBuffers |->
        IF \E w \in writes : w[1] = b
        THEN (CHOOSE w \in writes : w[1] = b)[2] ELSE buf[b]]

\* a stream starts the step at the head of its queue once its previous step
\* has ended
LnStart(stream) ==
    /\ lnRunning[stream] = 0
    /\ lnQueue[stream] # <<>>
    /\ lnRunning' = [lnRunning EXCEPT ![stream] = Head(lnQueue[stream])]
    /\ lnQueue' = [lnQueue EXCEPT ![stream] = Tail(@)]
    /\ lnBuf' = LnApply(lnBuf, LnProgram[Head(lnQueue[stream])].takes)
    /\ UNCHANGED <<lnIn, lnPc, lnFailed, lnResized, lnHostNext>>
    /\ UNCHANGED <<devVars, bmVars, opVars, s2dVars, agVars, pyVars, rkVars, saVars, ukVars, smVars>>

\* the step a stream executes ends: its results are in its output buffers
LnFinish(stream) ==
    /\ lnRunning[stream] # 0
    /\ lnBuf' = LnApply(lnBuf, LnProgram[lnRunning[stream]].writes)
    /\ lnRunning' = [lnRunning EXCEPT ![stream] = 0]
    /\ UNCHANGED <<lnIn, lnPc, lnFailed, lnResized, lnHostNext, lnQueue>>
    /\ UNCHANGED <<devVars, bmVars, opVars, s2dVars, agVars, pyVars, rkVars, saVars, ukVars, smVars>>

RECURSIVE LnShapesOfRank(_)
LnShapesOfRank(r) ==
    IF r = 0 THEN {<<>>}
    ELSE {Append(sh, d) : sh \in LnShapesOfRank(r - 1), d \in 1..LnMaxDim}

LnShapes == UNION {LnShapesOfRank(r) : r \in 0..LnMaxRank}

LnStartValues ==
    /\ lnPc = "start"
    /\ lnFailed = "none"
    /\ lnResized = {}
    /\ lnHostNext = 1
    /\ lnQueue = [st \in LnStreams |-> <<>>]
    /\ lnRunning = [st \in LnStreams |-> 0]
    /\ lnBuf = LnBufStart

LnInit ==
    /\ lnIn \in [op : {"LayerNorm", "LayerNormGradient"}, dims : LnShapes,
                 axis : -1..(LnMaxRank - 1)]
    /\ LnStartValues

LnIdle ==
    /\ lnIn = [op |-> "none", dims |-> <<>>, axis |-> 0]
    /\ LnStartValues

LnNext ==
    \/ LayerNormRun
    \/ LayerNormGradientRun
    \/ LnEnqueue
    \/ \E stream \in LnStreams : LnStart(stream)
    \/ \E stream \in LnStreams : LnFinish(stream)

(***************************************************************************)
(* C4: LayerNorm and LayerNormGradient each reject an input of rank < 2 at *)
(* operator entry, before any output or scratch tensor is resized and      *)
(* before any kernel is enqueued.                                          *)
(***************************************************************************)
C4_RankRejected ==
    (lnPc # "start" /\ Len(lnIn.dims) < 2) =>
       /\ lnPc = "throw"
       /\ lnResized = {}
       /\ lnHostNext = 1

\* the part of C4 that the code keeps: the forward operator
C4_ForwardRankRejected ==
    (lnPc # "start" /\ lnIn.op = "LayerNorm" /\ Len(lnIn.dims) < 2) =>
       /\ lnPc = "throw"
       /\ lnFailed = "LayerNorm requires input dim >= 2"
       /\ lnResized = {}
       /\ lnHostNext = 1

(***************************************************************************)
(* C5: within one LayerNorm or LayerNormGradient run the enqueued steps    *)
(* execute in enqueue order: a step that executes finds in every buffer it *)
(* reads the value its producer left there (no step runs before its        *)
(* producer ended, no buffer is overwritten while a reader of the old      *)
(* value is still to run); in particular the reduce of gscratch_ has ended *)
(* before Mul overwrites gscratch_.                                        *)
(***************************************************************************)
C5_StepNamed(name) ==
    {k \in 1..Len(LnProgram) : LnProgram[k].name = name}

C1_ZeroOrFatal ==
    LET zero == {"hipErrorNoDevice", "hipErrorInsufficientDriver",
                 "hipErrorInitializationError", "hipErrorUnknown"}
                \cup (IF asan THEN {"hipErrorMemoryAllocation"} ELSE {})
    IN  /\ lastErr \in zero => (~aborted /\ numRet = 0 /\ count = 0)
        /\ lastErr \notin (zero \cup {"none", "hipSuccess"})
              => (aborted /\ numRet = -1)
        /\ lastErr = "hipSuccess" => (~aborted /\ numRet = hwDevices)

\* an unknown error was answered with zero devices
C1_Witness ==
    lastErr = "hipErrorUnknown" /\ numRet = 0 /\ ~aborted

\* C1 as stated: only no-device and driver failures degrade to zero devices,
\* every other failing result aborts
C1_Original ==
    lastErr \notin {"none", "hipSuccess", "hipErrorNoDevice",
                    "hipErrorInsufficientDriver", "hipErrorInitializationError"}
        => aborted

(***************************************************************************)
(* C10: under full device control the cached device of a thread, when      *)
(* non-negative, is the runtime's current device of that thread;           *)
(* CaffeHipGetDevice returns that device; CaffeHipSetDevice to the cached  *)
(* id issues no runtime call.                                              *)
(***************************************************************************)
C10_CacheCoherent ==
    fullControl =>
       /\ \A t \in HostThreads :
             gCurrentDevice[t] >= 0 => gCurrentDevice[t] = rtDevice[t]
       /\ (devCall.op = "get" /\ ~devCall.threw)
             => devCall.ret = rtDevice[devCall.thread]
       /\ (devCall.op = "set" /\ devCall.arg = devCall.before)
             => (devCall.calls = 0 /\ ~devCall.threw)

\* a failed set after a successful one: the cache still names the old device
C10_Witness ==
    /\ fullControl
    /\ devCall.op = "set" /\ devCall.threw /\ devCall.before >= 0
    /\ gCurrentDevice[devCall.thread] = devCall.before
    /\ rtDevice[devCall.thread] = devCall.before

(***************************************************************************)
(* Host side of BooleanUnmask, SequenceMask, LRN and RMACRegions: what a   *)
(* run checks, resizes and enqueues, in the order of the source.  A run is *)
(* one step; opResized, opLaunched and opWritten hold what it had done     *)
(* when it returned or threw.                                              *)
(***************************************************************************)
OpRan(in, result, failed, resized, launched, written) ==
    /\ opIn' = in
    /\ opResult' = result
    /\ opFailed' = failed
    /\ opResized' = resized
    /\ opLaunched' = launched
    /\ opWritten' = written

(***************************************************************************)
(* operators/boolean_unmask_ops_hip.cc: BooleanUnmaskOp::RunOnDevice       *)
(***************************************************************************)
\* the first (mask, values) pair from pair i on that fails a check of the
\* loop, as <<pair, check>>, or <<>>
RECURSIVE UnmaskLoopCheck(_, _, _)
UnmaskLoopCheck(in, i, maskSize) ==
    IF i > Len(in.masks) THEN <<>>
    ELSE IF Len(in.masks[i]) # 1 THEN <<i, "mask.ndim() == 1">>
    ELSE IF Prod(in.masks[i]) # maskSize THEN <<i, "mask.size() == maskSize">>
    ELSE IF Len(in.values[i]) # 1 THEN <<i, "value.ndim() == 1">>
    ELSE UnmaskLoopCheck(in, i + 1, maskSize)

\* the loop of the checks placed ahead of every resize
UnmaskResizedNothing == {}

\* the tensors RunOnDevice resizes before it enters the loop of the checks
UnmaskResizedBeforeChecks == {"out", "hostMasks_", "hostValues_", "hostValueSizes_"}

BooleanUnmaskRun(in) ==
    /\ opArgs.op = "BooleanUnmask"
    /\ opResult = "none"
    /\ LET maskSize == Prod(in.masks[1])
           failed == UnmaskLoopCheck(in, 1, maskSize)
       IN  /\ outDims' = IF failed = <<>> \/ "out" \in UnmaskResizedBeforeChecks
                         THEN [outDims EXCEPT !["BooleanUnmask"] = <<maskSize>>]
                         ELSE outDims
           /\ IF failed # <<>>
              THEN OpRan(in, "throw", failed[2], UnmaskResizedBeforeChecks, <<>>, {})
              ELSE OpRan(in, "ok", "none",
                         UnmaskResizedBeforeChecks
                            \cup {"masks_", "values_", "valueSizes_", "indices_"},
                         <<"CopyFrom", "CopyFrom", "CopyFrom", "ComputeIndicesKernel",
                           "FillValuesKernel">>,
                         {"out"})
    /\ UNCHANGED <<opArgs, lrnInputDims, lrnDesc, rmacNumRois>>
    /\ UNCHANGED <<devVars, bmVars, lnVars, s2dVars, agVars, pyVars, rkVars, saVars, ukVars, smVars>>

(***************************************************************************)
(* operators/boolean_mask_ops_hip.cc: SequenceMaskOp::RunOnDevice,         *)
(* DoRunWithType                                                           *)
(***************************************************************************)
\* Tensor::size_between_dim(k, l): the product of the dims strictly between
SizeBetweenDim(dims, k, l) == Prod(SubSeq(dims, k + 2, l))

SequenceMaskKernels ==
    [sequence |-> "sequenceMaskKernel", window |-> "windowMaskKernel",
     upper |-> "upperMaskKernel", lower |-> "lowerMaskKernel",
     upperdiag |-> "upperDiagMaskKernel", lowerdiag |-> "lowerDiagMaskKernel"]

\* the kernel DoRunWithType launches for a mode, "" for an unsupported mode
SequenceMaskKernelOf(mode, hasRepeat) ==
    IF mode = "sequence" /\ hasRepeat THEN "repeatedSequenceMaskKernel"
    ELSE IF mode \in DOMAIN SequenceMaskKernels THEN SequenceMaskKernels[mode]
    ELSE ""

\* the first check of a SequenceMask run that fails, or "none":
\* the type dispatch of RunOnDevice, then, in DoRunWithType, the axis, the
\* batch axis, batch < axis, the repeat axis, the mode
SequenceMaskCheck(in) ==
    LET ndim == Len(in.dims) IN
    IF in.dtype \notin {"float16", "float"} THEN "DispatchHelper"
    ELSE IF ~CanonicalAxisOk(in.axis, ndim) THEN "canonical_axis_index(axis_)"
    ELSE IF in.hasBatch /\ ~CanonicalAxisOk(in.batch, ndim)
         THEN "canonical_axis_index(batch_)"
    ELSE IF in.hasBatch /\ ~(CanonicalAxisIndex(in.batch, ndim)
                               < CanonicalAxisIndex(in.axis, ndim))
         THEN "canonical_batch < canonical_axis"
    ELSE IF in.mode = "sequence" /\ in.hasRepeat /\ ~CanonicalAxisOk(in.repeatFrom, ndim)
         THEN "canonical_axis_index(repeat_from_)"
    ELSE IF SequenceMaskKernelOf(in.mode, in.hasRepeat) = ""
         THEN "Unsupported mode for SequenceMaskOp!"
    ELSE "none"

\* output->ResizeLike(*input) is the first statement of DoRunWithType after
\* the inputs are fetched: only the type dispatch precedes it
SequenceMaskResizedAt(failed) ==
    IF failed = "DispatchHelper" THEN {} ELSE {"output"}

SequenceMaskRun(in) ==
    /\ opArgs.op = "SequenceMask"
    /\ opResult = "none"
    /\ LET failed == SequenceMaskCheck(in)
           resized == SequenceMaskResizedAt(failed)
       IN  /\ outDims' = IF "output" \in resized
                         THEN [outDims EXCEPT !["SequenceMask"] = in.dims]
                         ELSE outDims
           /\ IF failed # "none"
              THEN OpRan(in, "throw", failed, resized, <<>>, {})
              ELSE OpRan(in, "ok", "none", resized,
                         <<SequenceMaskKernelOf(in.mode, in.hasRepeat)>>, {"output"})
    /\ UNCHANGED <<opArgs, lrnInputDims, lrnDesc, rmacNumRois>>
    /\ UNCHANGED <<devVars, bmVars, lnVars, s2dVars, agVars, pyVars, rkVars, saVars, ukVars, smVars>>

(***************************************************************************)
(* operators/local_response_normalization_op_miopen.cc: MIOPEN_LRNOP       *)
(***************************************************************************)
\* RunOnDevice: Y->ResizeLike(X) precedes the dispatch on the element type
LRNResizedAtDispatch == {"Y"}

\* RunOnDevice and DoRunWithType<T, M>; setOk and runOk are the results of
\* miopenSet4dTensorDescriptor and miopenLRNForward
LRNRun(in, setOk, runOk) ==
    /\ opArgs.op = "LRN"
    /\ opResult = "none"
    /\ outDims' = [outDims EXCEPT !["LRN"] = in.dims]
    /\ IF in.dtype \notin {"float", "float16"}
       THEN /\ OpRan(in, "throw", "Unsupported input type", LRNResizedAtDispatch,
                     <<>>, {})
            /\ UNCHANGED <<lrnInputDims, lrnDesc>>
       ELSE IF in.dims # lrnInputDims
       THEN /\ lrnInputDims' = in.dims
            /\ IF ~(Len(in.dims) >= 4)
               THEN /\ OpRan(in, "throw", "dim32", LRNResizedAtDispatch, <<>>, {})
                    /\ UNCHANGED lrnDesc
               ELSE IF ~setOk
               THEN /\ OpRan(in, "throw", "miopenSet4dTensorDescriptor",
                             LRNResizedAtDispatch, <<>>, {})
                    /\ UNCHANGED lrnDesc
               ELSE /\ lrnDesc' = [dims |-> SubSeq(in.dims, 1, 4), type |-> in.dtype]
                    /\ IF runOk
                       THEN OpRan(in, "ok", "none", LRNResizedAtDispatch,
                                  <<"miopenLRNForward">>, {"Y"})
                       ELSE OpRan(in, "throw", "miopenLRNForward",
                                  LRNResizedAtDispatch, <<"miopenLRNForward">>, {"Y"})
       ELSE /\ UNCHANGED <<lrnInputDims, lrnDesc>>
            /\ IF runOk
               THEN OpRan(in, "ok", "none", LRNResizedAtDispatch,
                          <<"miopenLRNForward">>, {"Y"})
               ELSE OpRan(in, "throw", "miopenLRNForward", LRNResizedAtDispatch,
                          <<"miopenLRNForward">>, {"Y"})
    /\ UNCHANGED <<opArgs, rmacNumRois>>
    /\ UNCHANGED <<devVars, bmVars, lnVars, s2dVars, agVars, pyVars, rkVars, saVars, ukVars, smVars>>

\* MIOPENLRNGradientOp: RunOnDevice and DoRunWithType<T, M>; in is dY (X and
\* Y have its shape and element type); setOk and runOk are the results of
\* miopenSet4dTensorDescriptor and miopenLRNBackward
LRNGradientRun(in, setOk, runOk) ==
    /\ opArgs.op = "LRNGradient"
    /\ opResult = "none"
    /\ outDims' = [outDims EXCEPT !["LRNGradient"] = in.dims]
    /\ IF in.dtype \notin {"float", "float16"}
       THEN /\ OpRan(in, "throw", "Unsupported input type", {"dX"}, <<>>, {})
            /\ UNCHANGED <<lrnInputDims, lrnDesc>>
       ELSE IF in.dims # lrnInputDims
       THEN /\ lrnInputDims' = in.dims
            /\ IF ~(Len(in.dims) >= 4)
               THEN /\ OpRan(in, "throw", "dim32", {"dX"}, <<>>, {})
                    /\ UNCHANGED lrnDesc
               ELSE IF ~setOk
               THEN /\ OpRan(in, "throw", "miopenSet4dTensorDescriptor",
                             {"dX"}, <<>>, {})
                    /\ UNCHANGED lrnDesc
               ELSE /\ lrnDesc' = [dims |-> SubSeq(in.dims, 1, 4), type |-> in.dtype]
                    /\ IF runOk
                       THEN OpRan(in, "ok", "none", {"dX"},
                                  <<"miopenLRNBackward">>, {"dX"})
                       ELSE OpRan(in, "throw", "miopenLRNBackward", {"dX"},
                                  <<"miopenLRNBackward">>, {"dX"})
       ELSE /\ UNCHANGED <<lrnInputDims, lrnDesc>>
            /\ IF runOk
               THEN OpRan(in, "ok", "none", {"dX"},
                          <<"miopenLRNBackward">>, {"dX"})
               ELSE OpRan(in, "throw", "miopenLRNBackward", {"dX"},
                          <<"miopenLRNBackward">>, {"dX"})
    /\ UNCHANGED <<opArgs, rmacNumRois>>
    /\ UNCHANGED <<devVars, bmVars, lnVars, s2dVars, agVars, pyVars, rkVars, saVars, ukVars, smVars>>

(***************************************************************************)
(* operators/rmac_regions_op_hip.cc: NumRMACRegionsKernel,                 *)
(* RMACRegionsOp::RunOnDevice.  overlap is a number of tenths; the values  *)
(* the kernel compares are kept as exact fractions <<numerator,            *)
(* denominator>> with a positive denominator.                              *)
(***************************************************************************)
Abs(x) == IF x < 0 THEN -x ELSE x

Max2(a, b) == IF a > b THEN a ELSE b

\* kv.value for kv.key = step:
\* fabsf((minW * minW - minW * b) / (minW * minW) - overlap), b = diff / step
RmacValue(step, minW, diff, overlap10) ==
    <<Abs(10 * (step * minW - diff) - overlap10 * step * minW), 10 * step * minW>>

\* operator< of cub::KeyValuePair: the smaller value, and of equal values the
\* larger key
RmacKvLess(k1, v1, k2, v2) ==
    \/ v1[1] * v2[2] < v2[1] * v1[2]
    \/ v1[1] * v2[2] = v2[1] * v1[2] /\ k2 < k1

\* the block-wide arg-min over the steps min_step..max_step
RmacStep(minW, diff, overlap10) ==
    CHOOSE k \in RmMinStep..RmMaxStep :
       \A k2 \in (RmMinStep..RmMaxStep) \ {k} :
          RmacKvLess(k, RmacValue(k, minW, diff, overlap10),
                     k2, RmacValue(k2, minW, diff, overlap10))

\* the number of regions of scale l counted without the test of region_size
RmacRoisAtScaleUnchecked(l, minW, Wd, Hd) == (l + Wd) * (l + Hd)

\* the number of regions of scale l = index + 1
RmacRoisAtScale(l, minW, Wd, Hd) ==
    IF (2 * minW) \div (l + 1) > 0 THEN (l + Wd) * (l + Hd) ELSE 0

RECURSIVE RmacSumRois(_, _, _, _)
RmacSumRois(scales, minW, Wd, Hd) ==
    IF scales <= 0 THEN 0
    ELSE RmacSumRois(scales - 1, minW, Wd, Hd) + RmacRoisAtScale(scales, minW, Wd, Hd)

\* NumRMACRegionsKernel: num_rois_data[0..2]
NumRMACRegionsKernel(W, H, overlap10, scales) ==
    LET minW == Min2(H, W)
        diff == Max2(H, W) - minW
        step == RmacStep(minW, diff, overlap10)
        Wd == IF W > H THEN step ELSE 0
        Hd == IF H > W THEN step ELSE 0
    IN  <<RmacSumRois(scales, minW, Wd, Hd), Wd, Hd>>

\* RunOnDevice: if (X.size() == 0) return true;
RMACEmptyReturnsEarly(dims) == Prod(dims) = 0

RMACRegionsRun(in) ==
    /\ opArgs.op = "RMACRegions"
    /\ opResult = "none"
    /\ IF RMACEmptyReturnsEarly(in.dims)
       THEN /\ OpRan(in, "ok", "none", {}, <<>>, {})
            /\ UNCHANGED <<outDims, rmacNumRois>>
       ELSE LET rois == NumRMACRegionsKernel(in.dims[4], in.dims[3],
                                             opArgs.overlap10, opArgs.scales)
                N == in.dims[1] * rois[1]
            IN  /\ rmacNumRois' = rois
                /\ outDims' = [outDims EXCEPT !["RMACRegions"] = <<N, 5>>]
                /\ OpRan(in, "ok", "none", {"num_rois_", "output"},
                         <<"NumRMACRegionsKernel", "CopyBytes", "RMACRegionsKernel">>,
                         IF N > 0 THEN {"output"} ELSE {})
    /\ UNCHANGED <<opArgs, lrnInputDims, lrnDesc>>
    /\ UNCHANGED <<devVars, bmVars, lnVars, s2dVars, agVars, pyVars, rkVars, saVars, ukVars, smVars>>

(***************************************************************************)
(* The runs the model tries.                                               *)
(***************************************************************************)
OpNames == {"BooleanUnmask", "SequenceMask", "LRN", "LRNGradient", "RMACRegions"}

UmShapes == {<<>>} \cup {<<n>> : n \in 0..UmMaxSize} \cup {<<n, 1>> : n \in 1..UmMaxSize}

\* InputSize() / 2 pairs of a mask and its values
UnmaskInputs ==
    UNION {{[op |-> "BooleanUnmask", masks |-> m, values |-> v] :
               m \in [1..n -> UmShapes], v \in [1..n -> {<<>>, <<1>>, <<1, 1>>}]} :
           n \in 1..UmMaxMasks}

\* batch and repeatFrom count only with HasArgument("batch") and
\* HasArgument("repeat_from_axis")
SequenceMaskInputs ==
    {in \in [op : {"SequenceMask"}, dtype : {"float", "float16", "int32"},
             mode : {"sequence", "window", "upper", "lower", "upperdiag",
                     "lowerdiag", "diag"},
             dims : {<<2>>, <<2, 3>>, <<2, 2, 2>>}, axis : {0, 1, 2},
             hasBatch : BOOLEAN, batch : {0, 1},
             hasRepeat : BOOLEAN, repeatFrom : {1, 2}] :
        /\ ~in.hasBatch => in.batch = 0
        /\ ~in.hasRepeat => in.repeatFrom = 1}

LRNInputs ==
    [op : {"LRN"}, dtype : {"float", "float16", "double"},
     dims : {<<1, 2, 1, 1>>, <<2, 1, 1, 1>>, <<2, 1, 1>>}]

LRNGradientInputs ==
    [op : {"LRNGradient"}, dtype : {"float", "float16", "double"},
     dims : {<<1, 2, 1, 1>>, <<2, 1, 1, 1>>, <<2, 1, 1>>}]

RMACInputs ==
    [op : {"RMACRegions"},
     dims : {<<b, c, h, w>> : b \in 0..RmMaxBatch, c \in 0..1,
                              h \in 0..RmMaxHW, w \in 0..RmMaxHW}]

OpStartValues ==
    /\ opIn = [op |-> "none"]
    /\ opResult = "none"
    /\ opFailed = "none"
    /\ opResized = {}
    /\ opLaunched = <<>>
    /\ opWritten = {}
    /\ outDims = [o \in OpNames |-> <<>>]
    /\ lrnInputDims = <<>>
    /\ lrnDesc = [dims |-> <<>>, type |-> "none"]
    /\ rmacNumRois = <<0, 0, 0>>

\* one operator instance is run again and again; scales_ and overlap_ are
\* arguments of RMACRegions
OpInit ==
    /\ \/ opArgs \in [op : {"RMACRegions"}, scales : 1..RmMaxScales,
                       overlap10 : {0, 4, 10}]
       \/ opArgs \in [op : OpNames \ {"RMACRegions"}, scales : {1}, overlap10 : {4}]
    /\ OpStartValues

OpIdle ==
    /\ opArgs = [op |-> "none", scales |-> 1, overlap10 |-> 4]
    /\ OpStartValues

\* the caller has taken the result of the run: the operator can run again,
\* with the tensors and descriptors as the run left them
OpReturn ==
    /\ opResult # "none"
    /\ OpRan([op |-> "none"], "none", "none", {}, <<>>, {})
    /\ UNCHANGED <<opArgs, outDims, lrnInputDims, lrnDesc, rmacNumRois>>
    /\ UNCHANGED <<devVars, bmVars, lnVars, s2dVars, agVars, pyVars, rkVars, saVars, ukVars, smVars>>

\* the inputs of the operator op of this behaviour, when its next run is due
OpInputs(op, inputs) ==
    IF opArgs.op = op /\ opResult = "none" THEN inputs ELSE {}

OpNext ==
    \/ OpReturn
    \/ \E in \in OpInputs("BooleanUnmask", UnmaskInputs) : BooleanUnmaskRun(in)
    \/ \E in \in OpInputs("SequenceMask", SequenceMaskInputs) : SequenceMaskRun(in)
    \/ \E in \in OpInputs("LRN", LRNInputs), setOk \in BOOLEAN, runOk \in BOOLEAN :
          LRNRun(in, setOk, runOk)
    \/ \E in \in OpInputs("LRNGradient", LRNGradientInputs), setOk \in BOOLEAN,
          runOk \in BOOLEAN :
          LRNGradientRun(in, setOk, runOk)
    \/ \E in \in OpInputs("RMACRegions", RMACInputs) : RMACRegionsRun(in)

(***************************************************************************)
(* C2 (as amended): a run of BooleanUnmask, SequenceMask or LRN that fails *)
(* a check of its input (a mask or values tensor of wrong rank or size, an *)
(* axis out of range, batch >= axis, an unsupported mode, an unsupported   *)
(* element type) throws before it has enqueued any device work, so no      *)
(* element of an output is written; but it has by then resized its output  *)
(* tensor (BooleanUnmask to [maskSize], SequenceMask and LRN to the shape  *)
(* of the input), except when SequenceMask's dispatch on the element type  *)
(* fails, which precedes the resize.                                       *)
(***************************************************************************)
C2_InputChecks ==
    {"mask.ndim() == 1", "mask.size() == maskSize", "value.ndim() == 1",
     "DispatchHelper", "canonical_axis_index(axis_)", "canonical_axis_index(batch_)",
     "canonical_batch < canonical_axis", "canonical_axis_index(repeat_from_)",
     "Unsupported mode for SequenceMaskOp!", "Unsupported input type"}

C2_OutputOf == [BooleanUnmask |-> "out", SequenceMask |-> "output", LRN |-> "Y"]

C2_OutputShape ==
    IF opIn.op = "BooleanUnmask" THEN <<Prod(opIn.masks[1])>> ELSE opIn.dims

C6_NumRois(H, W) ==
    IF H = 0 \/ W = 0 THEN 0
    ELSE NumRMACRegionsKernel(W, H, opArgs.overlap10, opArgs.scales)[1]

C6_OutputShape ==
    (opIn.op = "RMACRegions" /\ opResult = "ok")
       => outDims["RMACRegions"] =
             <<opIn.dims[1] * C6_NumRois(opIn.dims[3], opIn.dims[4]), 5>>

\* what the code keeps of C6: the shape after a run on a non-empty input
C6_NonEmptyOutputShape ==
    (opIn.op = "RMACRegions" /\ opResult = "ok" /\ Prod(opIn.dims) # 0)
       => outDims["RMACRegions"] =
             <<opIn.dims[1] * C6_NumRois(opIn.dims[3], opIn.dims[4]), 5>>

(***************************************************************************)
(* C14: after any sequence of LRN (or LRNGradient) runs on one operator    *)
(* instance with inputs of varying shapes and element types, the tensor    *)
(* descriptor passed to the MIOpen LRN call describes the shape and the    *)
(* element type of the current run's input.                                *)
(***************************************************************************)
C14_MiopenCalls == {<<"miopenLRNForward">>, <<"miopenLRNBackward">>}

C14_DescriptorCurrent ==
    (opIn.op \in {"LRN", "LRNGradient"} /\ opLaunched \in C14_MiopenCalls)
        => lrnDesc = [dims |-> opIn.dims, type |-> opIn.dtype]

\* the descriptor passed to the MIOpen call has the shape of the current
\* run's input, unless an earlier miopenSet4dTensorDescriptor for this shape
\* failed
C14_DescriptorShape ==
    (opIn.op \in {"LRN", "LRNGradient"} /\ opLaunched \in C14_MiopenCalls)
        => \/ lrnDesc.dims = opIn.dims
           \/ lrnDesc.dims # lrnInputDims

\* a MIOpen call of a float16 run with a descriptor of float
C14_StaleType ==
    /\ opIn.op \in {"LRN", "LRNGradient"} /\ opLaunched \in C14_MiopenCalls
    /\ opIn.dtype = "float16" /\ lrnDesc.type = "float"
    /\ lrnDesc.dims = opIn.dims

\* a MIOpen call with a descriptor that was never set: the set of the
\* previous run failed after miopen_input_dims_ had been updated
C14_StaleAfterFailedSet ==
    /\ opIn.op \in {"LRN", "LRNGradient"} /\ opLaunched \in C14_MiopenCalls
    /\ lrnDesc.type = "none"

(***************************************************************************)
(* operators/sparse_to_dense_op_hip.cc: SparseToDense with int32 values.   *)
(* The host resizes the output and enqueues, on the context's stream, the  *)
(* zero fill and then the scatter kernel; the kernel's threads interleave  *)
(* one atomicAdd at a time.                                                *)
(***************************************************************************)
S2dThreads == (0..(S2dMaxBlocks - 1)) \X (0..(S2dMaxThreads - 1))

\* the smallest int32_t
MinInt32 == (-MaxInt32) - 1

\* a + b in int32_t, as atomicAdd(int*, int) computes it: modulo 2^32
Add32(a, b) ==
    IF a > 0 /\ b > MaxInt32 - a THEN (a + MinInt32) + (b + MinInt32)
    ELSE IF a < 0 /\ b < MinInt32 - a THEN (a - MinInt32) + (b - MinInt32)
    ELSE a + b

\* CAFFE_GET_BLOCKS(N): enough blocks of numThreads threads for N items, at
\* most maxBlocks
CaffeGetBlocks(N, numThreads, maxBlocks) ==
    Min2((N + numThreads - 1) \div numThreads, maxBlocks)

\* DoRunWithType2: the checks of the two inputs, in the order of the code
SparseToDenseCheck(idxDims, valDims) ==
    IF Len(idxDims) # 1 THEN "sparse_indices.ndim() == 1"
    ELSE IF Len(valDims) < 1 THEN "sparse_values.ndim() >= 1"
    ELSE IF Prod(idxDims) # valDims[1]
         THEN "sparse_indices.size() == sparse_values.dim(0)"
    ELSE "none"

\* the scatter kernel enqueued ahead of the zero fill
S2dProgramScatterFirst == <<"SparseToDenseKernel", "Set">>

\* the device work DoRunWithType2 enqueues on context_.hip_stream(), in order
S2dProgram == <<"Set", "SparseToDenseKernel">>

\* int dst_idx = block_nitems * idx + i % block_nitems, idx the index of the
\* value row that holds item i
S2dDstIdx(i, blockNitems, indices) ==
    blockNitems * indices[(i \div blockNitems) + 1] + (i % blockNitems)

\* HIP_1D_KERNEL_LOOP(i, N): the first i of thread th and the i after i
S2dFirst(th, block, grid, N) ==
    IF th[1] < grid /\ th[2] < block /\ th[1] * block + th[2] < N
    THEN th[1] * block + th[2] ELSE -1

S2dAfter(i, block, grid, N) ==
    IF i + block * grid < N THEN i + block * grid ELSE -1

\* DoRunWithType2, host side: the checks, the resize and the two enqueues
SparseToDenseRun ==
    /\ s2dPc = "start"
    /\ LET failed == SparseToDenseCheck(s2dIn.idxDims, s2dIn.valDims) IN
       IF failed # "none"
       THEN /\ s2dPc' = "throw"
            /\ s2dFailed' = failed
            /\ UNCHANGED <<s2dQueue, s2dOutDims, s2dOut>>
       ELSE LET shape == [s2dIn.valDims EXCEPT ![1] = s2dIn.firstDim]
                blockNitems == SizeFromDim(s2dIn.valDims, 1)
            IN  /\ s2dOutDims' = shape
                /\ s2dOut' = [d \in 0..(Prod(shape) - 1) |-> s2dIn.garbage]
                /\ IF Prod(shape) # s2dIn.firstDim * blockNitems
                   THEN /\ s2dPc' = "throw"
                        /\ s2dFailed' = "output->size() == output_first_dim * block_nitems"
                        /\ s2dQueue' = <<S2dProgram[1]>>
                   ELSE /\ s2dPc' = "stream"
                        /\ s2dFailed' = "none"
                        /\ s2dQueue' = S2dProgram
    /\ UNCHANGED <<s2dIn, s2dRunning, s2dZeroed, s2dAdded, s2dNext>>
    /\ UNCHANGED <<devVars, bmVars, lnVars, opVars, agVars, pyVars, rkVars, saVars, ukVars, smVars>>

\* math::Set<TData>(output->size(), TData(0), output_data, &context_)
S2dSet ==
    /\ s2dPc = "stream" /\ ~s2dRunning
    /\ s2dQueue # <<>> /\ Head(s2dQueue) = "Set"
    /\ s2dOut' = [d \in DOMAIN s2dOut |-> 0]
    /\ s2dZeroed' = TRUE
    /\ s2dQueue' = Tail(s2dQueue)
    /\ s2dPc' = IF Tail(s2dQueue) = <<>> THEN "done" ELSE "stream"
    /\ UNCHANGED <<s2dIn, s2dFailed, s2dRunning, s2dOutDims, s2dAdded, s2dNext>>
    /\ UNCHANGED <<devVars, bmVars, lnVars, opVars, agVars, pyVars, rkVars, saVars, ukVars, smVars>>

\* the stream starts SparseToDenseKernel on CAFFE_GET_BLOCKS(N) blocks
S2dKernelStart ==
    /\ s2dPc = "stream" /\ ~s2dRunning
    /\ s2dQueue # <<>> /\ Head(s2dQueue) = "SparseToDenseKernel"
    /\ LET blockNitems == SizeFromDim(s2dIn.valDims, 1)
           N == blockNitems * s2dIn.idxDims[1]
           grid == CaffeGetBlocks(N, s2dIn.numThreads, s2dIn.maxBlocks)
       IN  s2dNext' = [th \in S2dThreads |-> S2dFirst(th, s2dIn.numThreads, grid, N)]
    /\ s2dRunning' = TRUE
    /\ s2dQueue' = Tail(s2dQueue)
    /\ UNCHANGED <<s2dIn, s2dPc, s2dFailed, s2dOutDims, s2dOut, s2dZeroed, s2dAdded>>
    /\ UNCHANGED <<devVars, bmVars, lnVars, opVars, agVars, pyVars, rkVars, saVars, ukVars, smVars>>

\* one iteration of the loop of SparseToDenseKernel in thread th
SparseToDenseKernel(th) ==
    /\ s2dRunning
    /\ s2dNext[th] # -1
    /\ LET i == s2dNext[th]
           blockNitems == SizeFromDim(s2dIn.valDims, 1)
           N == blockNitems * s2dIn.idxDims[1]
           grid == CaffeGetBlocks(N, s2dIn.numThreads, s2dIn.maxBlocks)
           dst_idx == S2dDstIdx(i, blockNitems, s2dIn.indices)
       IN  /\ s2dOut' = [s2dOut EXCEPT ![dst_idx] = Add32(@, s2dIn.vals[i + 1])]
           /\ s2dAdded' = s2dAdded \cup {i}
           /\ s2dNext' = [s2dNext EXCEPT ![th] = S2dAfter(i, s2dIn.numThreads, grid, N)]
    /\ UNCHANGED <<s2dIn, s2dPc, s2dFailed, s2dQueue, s2dRunning, s2dOutDims, s2dZeroed>>
    /\ UNCHANGED <<devVars, bmVars, lnVars, opVars, agVars, pyVars, rkVars, saVars, ukVars, smVars>>

\* every thread of the kernel has left its loop
S2dKernelEnd ==
    /\ s2dRunning
    /\ \A th \in S2dThreads : s2dNext[th] = -1
    /\ s2dRunning' = FALSE
    /\ s2dPc' = IF s2dQueue = <<>> THEN "done" ELSE "stream"
    /\ UNCHANGED <<s2dIn, s2dFailed, s2dQueue, s2dOutDims, s2dOut, s2dZeroed,
                   s2dAdded, s2dNext>>
    /\ UNCHANGED <<devVars, bmVars, lnVars, opVars, agVars, pyVars, rkVars, saVars, ukVars, smVars>>

\* int32 values that make a sum wrap around
S2dValues == {1, MaxInt32}

\* the shapes of Input(VALUES) with n rows: rank 1, and rank 2
S2dValShapes(n) == {<<n>>} \cup {<<n, k>> : k \in 0..S2dMaxItems}

\* the inputs that pass the checks: every index names a row of the output
\* (GetOutputFirstDim: the configured first dimension, or 1 + the largest
\* index); item c of value row k is rowBase[k] + c
S2dValidInputs ==
    UNION { UNION { UNION {
        { [idxDims |-> <<n>>, valDims |-> vd, indices |-> ind, firstDim |-> fd,
           vals |-> [i \in 1..Prod(vd) |->
                       Add32(base[((i - 1) \div SizeFromDim(vd, 1)) + 1],
                             (i - 1) % SizeFromDim(vd, 1))]] :
            ind \in [1..n -> 0..(fd - 1)], base \in [1..n -> S2dValues] } :
          fd \in 0..S2dMaxRows } :
        vd \in S2dValShapes(n) } :
      n \in 0..S2dMaxLen }

\* inputs that fail one of the checks
S2dInvalidInputs ==
    { [idxDims |-> id, valDims |-> vd, indices |-> <<>>, firstDim |-> 1,
       vals |-> <<>>] :
        <<id, vd>> \in {<<<<>>, <<1>>>>, <<<<1, 1>>, <<1>>>>, <<<<1>>, <<>>>>,
                        <<<<1>>, <<2>>>>, <<<<2>>, <<1, 1>>>>} }

S2dStartValues ==
    /\ s2dPc = "start"
    /\ s2dFailed = "none"
    /\ s2dQueue = <<>>
    /\ s2dRunning = FALSE
    /\ s2dOutDims = <<>>
    /\ s2dOut = <<>>
    /\ s2dZeroed = FALSE
    /\ s2dAdded = {}
    /\ s2dNext = [th \in S2dThreads |-> -1]

S2dInit ==
    /\ \E in \in S2dValidInputs \cup S2dInvalidInputs :
       \E nt \in 1..S2dMaxThreads, mb \in 1..S2dMaxBlocks, g \in {7} :
          s2dIn = [idxDims |-> in.idxDims, valDims |-> in.valDims,
                   indices |-> in.indices, firstDim |-> in.firstDim,
                   vals |-> in.vals, numThreads |-> nt, maxBlocks |-> mb,
                   garbage |-> g]
    /\ S2dStartValues

S2dIdle ==
    /\ s2dIn = [idxDims |-> <<>>, valDims |-> <<>>, indices |-> <<>>,
                firstDim |-> 0, vals |-> <<>>, numThreads |-> 1, maxBlocks |-> 1,
                garbage |-> 0]
    /\ S2dStartValues

S2dNext ==
    \/ SparseToDenseRun
    \/ S2dSet
    \/ S2dKernelStart
    \/ \E th \in S2dThreads : SparseToDenseKernel(th)
    \/ S2dKernelEnd

(***************************************************************************)
(* C8: SparseToDense with int32 values fills the whole output with zeros   *)
(* before any scatter-add runs; whatever adds have been done, in whatever  *)
(* order, element c of output row r is the int32 sum of item c of the      *)
(* value rows added so far whose index is r; and when the run is over      *)
(* every item has been added, so row r is the sum of all value rows whose  *)
(* index is r (all zeros for a row no index names).                        *)
(***************************************************************************)
C8_BlockNitems == SizeFromDim(s2dIn.valDims, 1)

\* the int32 sum of item c of the value rows 1..k with index r whose item c is
\* in added
RECURSIVE C8_RowSum(_, _, _, _)
C8_RowSum(k, r, c, added) ==
    IF k = 0 THEN 0
    ELSE LET i == (k - 1) * C8_BlockNitems + c
             rest == C8_RowSum(k - 1, r, c, added)
         IN  IF s2dIn.indices[k] = r /\ i \in added
             THEN Add32(rest, s2dIn.vals[i + 1]) ELSE rest

C8_ScatterAdd ==
    /\ (s2dAdded # {}) => s2dZeroed
    /\ s2dZeroed =>
         \A r \in 0..(s2dIn.firstDim - 1), c \in 0..(C8_BlockNitems - 1) :
            s2dOut[C8_BlockNitems * r + c] =
               C8_RowSum(Len(s2dIn.indices), r, c, s2dAdded)
    /\ (s2dPc = "done") =>
         /\ s2dZeroed
         /\ s2dAdded = 0..(C8_BlockNitems * Len(s2dIn.indices) - 1)
         /\ DOMAIN s2dOut = 0..(s2dIn.firstDim * C8_BlockNitems - 1)

\* a finished run with an index named twice, a row that no index names, two
\* threads at work and a sum that wrapped around
C8_Witness ==
    /\ s2dPc = "done"
    /\ s2dIn.indices = <<1, 1>> /\ s2dIn.firstDim = 2 /\ s2dIn.valDims = <<2, 2>>
    /\ s2dIn.numThreads = 2 /\ s2dIn.garbage = 7
    /\ s2dIn.vals = <<MaxInt32, MinInt32, 1, 2>>
    /\ s2dOut = [d \in 0..3 |-> IF d = 2 THEN MinInt32
                                ELSE IF d = 3 THEN MinInt32 + 2 ELSE 0]

(***************************************************************************)
(* sgd/adagrad_op_hip.cc: RowWiseSparseAdagradKernel.  Each thread of each *)
(* block walks the kernel one access to param_mom or param at a time; what *)
(* a thread does on its own registers and on grad, which nothing writes,   *)
(* up to its next barrier is part of the step before.  A moment is the set *)
(* of the gradient rows whose mean square has been added to it, a          *)
(* parameter the set of the rows applied to it.                            *)
(***************************************************************************)
AgThreads == (0..(AgMaxBlocks - 1)) \X (0..(AgMaxThreads - 1))

\* the threads the launch creates
AgLive == {th \in AgThreads : th[1] < agGrid /\ th[2] < agIn.numThreads}

\* the threads of block b
AgBlock(b) == {th \in AgLive : th[1] = b}

\* the row loop led by the thread's own index
AgFirstRowByThread(b, t) == t

\* for(int i = hipBlockIdx_x; ...): the first row of thread t of block b
AgFirstRow(b, t) == b

\* the row loop's test i < M, then the loop over j that sums the squares, up
\* to the barrier inside BlockReduce::Sum
AgEnter(i) == IF i < agIn.M THEN "reduceWait" ELSE "done"

\* const SIndex index = indices[i]
AgIndex(i) == agIn.indices[i + 1]

\* the j of for(int j = hipThreadIdx_x; j < N; j += hipBlockDim_x)
AgCols(t) == {j \in 0..(agIn.N - 1) : j % agIn.numThreads = t}

\* DoRunWithType: nothing to do for an empty gradient, else the launch on
\* min(GRAD_M, CAFFE_MAXIMUM_NUM_BLOCKS) blocks
RowWiseSparseAdagradRun ==
    /\ agPc = "start"
    /\ IF agIn.M * agIn.N = 0
       THEN /\ agPc' = "done"
            /\ UNCHANGED <<agGrid, agThPc, agRow>>
       ELSE LET grid == Min2(agIn.M, agIn.maxBlocks) IN
            /\ agPc' = "kernel"
            /\ agGrid' = grid
            /\ agRow' = [th \in AgThreads |->
                  IF th[1] < grid /\ th[2] < agIn.numThreads
                  THEN AgFirstRow(th[1], th[2]) ELSE 0]
            /\ agThPc' = [th \in AgThreads |->
                  IF th[1] < grid /\ th[2] < agIn.numThreads
                  THEN AgEnter(AgFirstRow(th[1], th[2])) ELSE "done"]
    /\ UNCHANGED <<agIn, agTmp, agReduces, agSyncs, agMom, agMomAdded, agParam>>
    /\ UNCHANGED <<devVars, bmVars, lnVars, opVars, s2dVars, pyVars, rkVars, saVars, ukVars, smVars>>

\* where a thread goes on after the barrier it waits at: out of the
\* reduction thread 0 to its += and the others to __syncthreads(), out of
\* __syncthreads() all to the read of the moment
AgAfterBarrier(th) ==
    IF agThPc[th] = "reduceWait"
    THEN (IF th[2] = 0 THEN "momLoad" ELSE "syncWait")
    ELSE "step"

\* the barrier of block b opens: every thread of the block that has not left
\* the kernel waits, in BlockReduce::Sum or in __syncthreads()
AgBarrier(b) ==
    /\ agPc = "kernel"
    /\ \E th \in AgBlock(b) : agThPc[th] \in {"reduceWait", "syncWait"}
    /\ \A th \in AgBlock(b) : agThPc[th] \in {"reduceWait", "syncWait", "done"}
    /\ agThPc' = [th \in AgThreads |->
          IF th \in AgBlock(b) /\ agThPc[th] # "done"
          THEN AgAfterBarrier(th) ELSE agThPc[th]]
    /\ agReduces' = [th \in AgThreads |->
          IF th \in AgBlock(b) /\ agThPc[th] = "reduceWait"
          THEN agReduces[th] + 1 ELSE agReduces[th]]
    /\ agSyncs' = [th \in AgThreads |->
          IF th \in AgBlock(b) /\ agThPc[th] = "syncWait"
          THEN agSyncs[th] + 1 ELSE agSyncs[th]]
    /\ UNCHANGED <<agIn, agPc, agGrid, agRow, agTmp, agMom, agMomAdded, agParam>>
    /\ UNCHANGED <<devVars, bmVars, lnVars, opVars, s2dVars, pyVars, rkVars, saVars, ukVars, smVars>>

\* thread 0: param_mom[index] += row_sum_squares_avg, the load
AgMomLoad(th) ==
    /\ agPc = "kernel" /\ agThPc[th] = "momLoad"
    /\ agTmp' = [agTmp EXCEPT ![th] = agMom[AgIndex(agRow[th])]]
    /\ agThPc' = [agThPc EXCEPT ![th] = "momStore"]
    /\ UNCHANGED <<agIn, agPc, agGrid, agRow, agReduces, agSyncs, agMom,
                   agMomAdded, agParam>>
    /\ UNCHANGED <<devVars, bmVars, lnVars, opVars, s2dVars, pyVars, rkVars, saVars, ukVars, smVars>>

\* thread 0: param_mom[index] += row_sum_squares_avg, the store; then
\* __syncthreads()
AgMomStore(th) ==
    /\ agPc = "kernel" /\ agThPc[th] = "momStore"
    /\ agMom' = [agMom EXCEPT ![AgIndex(agRow[th])] = agTmp[th] \cup {agRow[th]}]
    /\ agMomAdded' = [agMomAdded EXCEPT ![th[1]] = @ \cup {agRow[th]}]
    /\ agTmp' = [agTmp EXCEPT ![th] = {}]
    /\ agThPc' = [agThPc EXCEPT ![th] = "syncWait"]
    /\ UNCHANGED <<agIn, agPc, agGrid, agRow, agReduces, agSyncs, agParam>>
    /\ UNCHANGED <<devVars, bmVars, lnVars, opVars, s2dVars, pyVars, rkVars, saVars, ukVars, smVars>>

\* float step = lr[0] / (sqrtf(param_mom[index]) + epsilon): the read
AgStep(th) ==
    /\ agPc = "kernel" /\ agThPc[th] = "step"
    /\ agTmp' = [agTmp EXCEPT ![th] = agMom[AgIndex(agRow[th])]]
    /\ agThPc' = [agThPc EXCEPT ![th] = "update"]
    /\ UNCHANGED <<agIn, agPc, agGrid, agRow, agReduces, agSyncs, agMom,
                   agMomAdded, agParam>>
    /\ UNCHANGED <<devVars, bmVars, lnVars, opVars, s2dVars, pyVars, rkVars, saVars, ukVars, smVars>>

\* the loop over j that updates param, then i += hipGridDim_x
AgUpdateParam(th) ==
    /\ agPc = "kernel" /\ agThPc[th] = "update"
    /\ agParam' = [e \in DOMAIN agParam |->
          IF e[1] = AgIndex(agRow[th]) /\ e[2] \in AgCols(th[2])
          THEN agParam[e] \cup {agRow[th]} ELSE agParam[e]]
    /\ agRow' = [agRow EXCEPT ![th] = @ + agGrid]
    /\ agTmp' = [agTmp EXCEPT ![th] = {}]
    /\ agThPc' = [agThPc EXCEPT ![th] = AgEnter(agRow[th] + agGrid)]
    /\ UNCHANGED <<agIn, agPc, agGrid, agReduces, agSyncs, agMom, agMomAdded>>
    /\ UNCHANGED <<devVars, bmVars, lnVars, opVars, s2dVars, pyVars, rkVars, saVars, ukVars, smVars>>

\* every thread has left the kernel
AgKernelEnd ==
    /\ agPc = "kernel"
    /\ \A th \in AgThreads : agThPc[th] = "done"
    /\ agPc' = "done"
    /\ UNCHANGED <<agIn, agGrid, agThPc, agRow, agTmp, agReduces, agSyncs, agMom,
                   agMomAdded, agParam>>
    /\ UNCHANGED <<devVars, bmVars, lnVars, opVars, s2dVars, pyVars, rkVars, saVars, ukVars, smVars>>

AgStartValues ==
    /\ agPc = "start"
    /\ agGrid = 0
    /\ agThPc = [th \in AgThreads |-> "done"]
    /\ agRow = [th \in AgThreads |-> 0]
    /\ agTmp = [th \in AgThreads |-> {}]
    /\ agReduces = [th \in AgThreads |-> 0]
    /\ agSyncs = [th \in AgThreads |-> 0]
    /\ agMomAdded = [b \in 0..(AgMaxBlocks - 1) |-> {}]

\* INDICES up to the names of the parameter rows: a row is named by the
\* place of its first occurrence
AgIndices(M) ==
    {ind \in [1..M -> 0..(M - 1)] :
        \A k \in 1..M : \/ ind[k] = k - 1
                        \/ \E l \in 1..(k - 1) : ind[l] = ind[k]}

\* GRAD of M rows of N columns; INDICES names one of M parameter rows for
\* each; the launch has at most AgMaxLive threads
AgInit ==
    /\ \E M \in 0..AgMaxRows, N \in 0..AgMaxCols,
          nt \in 1..AgMaxThreads, mb \in 1..AgMaxBlocks :
       \E ind \in AgIndices(M) :
          /\ nt * mb <= AgMaxLive
          /\ agIn = [M |-> M, N |-> N, indices |-> ind, numThreads |-> nt,
                     maxBlocks |-> mb]
          /\ agMom = [r \in 0..(M - 1) |-> {}]
          /\ agParam = [e \in (0..(M - 1)) \X (0..(N - 1)) |-> {}]
    /\ AgStartValues

AgIdle ==
    /\ agIn = [M |-> 0, N |-> 0, indices |-> <<>>, numThreads |-> 1, maxBlocks |-> 1]
    /\ agMom = <<>>
    /\ agParam = <<>>
    /\ AgStartValues

AgNext ==
    \/ RowWiseSparseAdagradRun
    \/ \E b \in 0..(AgMaxBlocks - 1) : AgBarrier(b)
    \/ \E th \in AgThreads : AgMomLoad(th)
    \/ \E th \in AgThreads : AgMomStore(th)
    \/ \E th \in AgThreads : AgStep(th)
    \/ \E th \in AgThreads : AgUpdateParam(th)
    \/ AgKernelEnd

(***************************************************************************)
(* C9: in RowWiseSparseAdagradKernel the threads of a block have passed    *)
(* the same number of block reductions and the same number of barriers,    *)
(* all in the same row; a thread has read param_mom[index] for the step of *)
(* row i only after thread 0 of its block added row i's mean square; and   *)
(* once thread 0 has added the mean square of a row, no thread of the      *)
(* block is still at an earlier row.                                       *)
(***************************************************************************)
C9_BlockOrder ==
    \A th \in AgLive :
       /\ \A other \in AgBlock(th[1]) :
             /\ agReduces[other] = agReduces[th]
             /\ agSyncs[other] = agSyncs[th]
             /\ (agThPc[th] # "done" /\ agThPc[other] # "done"
                   /\ agReduces[th] = agSyncs[th] + 1)
                  => agRow[other] = agRow[th]
       /\ (agThPc[th] = "update") => (agRow[th] \in agMomAdded[th[1]])
       /\ \A i \in agMomAdded[th[1]] : agRow[th] >= i

\* thread 0 of block 0 has added the mean square of the block's second row
\* while thread 1 waits at the barrier of that row
C9_Witness ==
    /\ agPc = "kernel" /\ agGrid = 1 /\ agIn.numThreads = 2
    /\ agMomAdded[0] = {0, 1}
    /\ agThPc[<<0, 0>>] = "syncWait" /\ agThPc[<<0, 1>>] = "syncWait"
    /\ agRow[<<0, 1>>] = 1 /\ agReduces[<<0, 1>>] = 2 /\ agSyncs[<<0, 1>>] = 1

(***************************************************************************)
(* C23: RowWiseSparseAdagrad processes every gradient row i in [0, M)      *)
(* exactly once for every grid size (also when the grid has fewer blocks   *)
(* than M) and every row width N (also when N exceeds the block size): it  *)
(* adds the mean of the row's squared gradients to the single moment of    *)
(* parameter row indices[i], then updates each of that row's N parameters  *)
(* using the already-updated moment.                                       *)
(***************************************************************************)
C23_RowsOf(r) == {i \in 0..(agIn.M - 1) : agIn.indices[i + 1] = r}

C23_EveryRowOnce ==
    /\ \A th \in AgLive :
          \* no row is added to a moment a second time
          /\ (agThPc[th] = "momStore") =>
                \A b \in 0..(AgMaxBlocks - 1) : agRow[th] \notin agMomAdded[b]
          \* the moment read for the step holds the row's own mean square
          /\ (agThPc[th] = "update") => agRow[th] \in agTmp[th]
    \* the threads of a block share the N columns of a row
    /\ (agPc = "kernel") =>
          \A j \in 0..(agIn.N - 1) :
             Cardinality({t \in 0..(agIn.numThreads - 1) : j \in AgCols(t)}) = 1
    /\ (agPc = "done" /\ agIn.M * agIn.N > 0) =>
          /\ UNION {agMomAdded[b] : b \in 0..(AgMaxBlocks - 1)} = 0..(agIn.M - 1)
          /\ \A r \in DOMAIN agMom : agMom[r] = C23_RowsOf(r)
          /\ \A e \in DOMAIN agParam : agParam[e] = C23_RowsOf(e[1])

\* no two gradient rows that name the same parameter row are taken by
\* different blocks
C23_MomentsUnshared ==
    \A i1 \in 0..(agIn.M - 1) : \A i2 \in 0..(agIn.M - 1) :
        agIn.indices[i1 + 1] = agIn.indices[i2 + 1]
            => i1 % Min2(agIn.M, agIn.maxBlocks) = i2 % Min2(agIn.M, agIn.maxBlocks)

\* the same for the runs in which no moment is shared between blocks
C23_EveryRowOnceUnshared == C23_MomentsUnshared => C23_EveryRowOnce

\* a run on one block of one thread, 3 rows of 2 columns, is over: the grid
\* is smaller than M and the block smaller than N, and every row is in its
\* moment and in its parameters
C23_Witness ==
    /\ agPc = "done" /\ agGrid = 1 /\ agIn.numThreads = 1
    /\ agIn.M = 3 /\ agIn.N = 2 /\ agIn.indices = <<0, 1, 0>>
    /\ agMom[0] = {0, 2} /\ agMom[1] = {1}
    /\ \A e \in DOMAIN agParam : agParam[e] = C23_RowsOf(e[1])

\* two blocks, rows 0 and 1 both for parameter row 0: the thread of row 0
\* computes its step from a moment that holds row 1's mean square only
C23_StaleMoment ==
    /\ agPc = "kernel" /\ agGrid = 2 /\ agIn.indices[1] = agIn.indices[2]
    /\ agThPc[<<0, 0>>] = "update" /\ agRow[<<0, 0>>] = 0
    /\ agTmp[<<0, 0>>] = {1}

(***************************************************************************)
(* sgd/adagrad_op_hip.cc: SparseAdagradKernel.  Each thread walks the      *)
(* grid-stride loop over the elements of GRAD one access to param_mom or   *)
(* param at a time; what a moment or a parameter element holds is the set  *)
(* of gradient elements whose contribution is in it.                       *)
(***************************************************************************)
SaThreads == (0..(SaMaxBlocks - 1)) \X (0..(SaMaxThreads - 1))

\* HIP_1D_KERNEL_LOOP(i, N): the test i < N, then the body up to the read
\* of param_mom[paramIdx]
SaEnter(i) == IF i < saIn.n * saIn.sliceSz THEN "momLoad" ELSE "done"

\* paramIdx = indices[i / grad_slice_sz] * grad_slice_sz + (i % grad_slice_sz)
SaParamIdx(i) ==
    saIn.indices[(i \div saIn.sliceSz) + 1] * saIn.sliceSz + (i % saIn.sliceSz)

\* DoRunWithType, DoRunWithType2: nothing to do without indices or for an
\* empty gradient, else the launch on CAFFE_GET_BLOCKS(N) blocks
SparseAdagradRun ==
    /\ saPc = "start"
    /\ IF saIn.n = 0 \/ saIn.n * saIn.sliceSz = 0
       THEN /\ saPc' = "done"
            /\ UNCHANGED <<saGrid, saThPc, saI>>
       ELSE LET grid == CaffeGetBlocks(saIn.n * saIn.sliceSz, saIn.numThreads,
                                       saIn.maxBlocks)
                first(th) == th[1] * saIn.numThreads + th[2]
                live(th) == th[1] < grid /\ th[2] < saIn.numThreads
            IN  /\ saPc' = "kernel"
                /\ saGrid' = grid
                /\ saI' = [th \in SaThreads |-> IF live(th) THEN first(th) ELSE 0]
                /\ saThPc' = [th \in SaThreads |->
                      IF live(th) THEN SaEnter(first(th)) ELSE "done"]
    /\ UNCHANGED <<saIn, saTmp, saMom, saParam>>
    /\ UNCHANGED <<devVars, bmVars, lnVars, opVars, s2dVars, agVars, pyVars, rkVars, ukVars, smVars>>

\* mixed_add(grad * grad, param_mom[paramIdx]): the read of the moment
SaMomLoad(th) ==
    /\ saPc = "kernel" /\ saThPc[th] = "momLoad"
    /\ saTmp' = [saTmp EXCEPT ![th] = saMom[SaParamIdx(saI[th])] \cup {saI[th]}]
    /\ saThPc' = [saThPc EXCEPT ![th] = "momStore"]
    /\ UNCHANGED <<saIn, saPc, saGrid, saI, saMom, saParam>>
    /\ UNCHANGED <<devVars, bmVars, lnVars, opVars, s2dVars, agVars, pyVars, rkVars, ukVars, smVars>>

\* mixed_store(&mom_new, &(param_mom[paramIdx]))
SaMomStore(th) ==
    /\ saPc = "kernel" /\ saThPc[th] = "momStore"
    /\ saMom' = [saMom EXCEPT ![SaParamIdx(saI[th])] = saTmp[th]]
    /\ saThPc' = [saThPc EXCEPT ![th] = "paramLoad"]
    /\ UNCHANGED <<saIn, saPc, saGrid, saI, saTmp, saParam>>
    /\ UNCHANGED <<devVars, bmVars, lnVars, opVars, s2dVars, agVars, pyVars, rkVars, ukVars, smVars>>

\* mixed_add(LR * grad / (sqrtf(mom_new) + epsilon), param[paramIdx]): the
\* read of the parameter
SaParamLoad(th) ==
    /\ saPc = "kernel" /\ saThPc[th] = "paramLoad"
    /\ saTmp' = [saTmp EXCEPT ![th] = saParam[SaParamIdx(saI[th])] \cup {saI[th]}]
    /\ saThPc' = [saThPc EXCEPT ![th] = "paramStore"]
    /\ UNCHANGED <<saIn, saPc, saGrid, saI, saMom, saParam>>
    /\ UNCHANGED <<devVars, bmVars, lnVars, opVars, s2dVars, agVars, pyVars, rkVars, ukVars, smVars>>

\* mixed_store(&param_new, &(param[paramIdx])), then i += hipBlockDim_x *
\* hipGridDim_x and the loop test
SaParamStore(th) ==
    /\ saPc = "kernel" /\ saThPc[th] = "paramStore"
    /\ saParam' = [saParam EXCEPT ![SaParamIdx(saI[th])] = saTmp[th]]
    /\ saTmp' = [saTmp EXCEPT ![th] = {}]
    /\ saI' = [saI EXCEPT ![th] = @ + saIn.numThreads * saGrid]
    /\ saThPc' = [saThPc EXCEPT
          ![th] = SaEnter(saI[th] + saIn.numThreads * saGrid)]
    /\ UNCHANGED <<saIn, saPc, saGrid, saMom>>
    /\ UNCHANGED <<devVars, bmVars, lnVars, opVars, s2dVars, agVars, pyVars, rkVars, ukVars, smVars>>

\* every thread has left the kernel
SaKernelEnd ==
    /\ saPc = "kernel"
    /\ \A th \in SaThreads : saThPc[th] = "done"
    /\ saPc' = "done"
    /\ UNCHANGED <<saIn, saGrid, saThPc, saI, saTmp, saMom, saParam>>
    /\ UNCHANGED <<devVars, bmVars, lnVars, opVars, s2dVars, agVars, pyVars, rkVars, ukVars, smVars>>

SaStartValues ==
    /\ saPc = "start"
    /\ saGrid = 0
    /\ saThPc = [th \in SaThreads |-> "done"]
    /\ saI = [th \in SaThreads |-> 0]
    /\ saTmp = [th \in SaThreads |-> {}]

\* GRAD of n slices of sliceSz elements; INDICES names one of n parameter
\* rows for each slice
SaInit ==
    /\ \E n \in 0..SaMaxRows, sz \in 0..SaMaxSlice,
          nt \in 1..SaMaxThreads, mb \in 1..SaMaxBlocks :
       \E ind \in AgIndices(n) :
          /\ saIn = [n |-> n, sliceSz |-> sz, indices |-> ind, numThreads |-> nt,
                     maxBlocks |-> mb]
          /\ saMom = [e \in 0..(n * sz - 1) |-> {}]
          /\ saParam = [e \in 0..(n * sz - 1) |-> {}]
    /\ SaStartValues

SaIdle ==
    /\ saIn = [n |-> 0, sliceSz |-> 0, indices |-> <<>>, numThreads |-> 1,
               maxBlocks |-> 1]
    /\ saMom = <<>>
    /\ saParam = <<>>
    /\ SaStartValues

SaNext ==
    \/ SparseAdagradRun
    \/ \E th \in SaThreads : SaMomLoad(th)
    \/ \E th \in SaThreads : SaMomStore(th)
    \/ \E th \in SaThreads : SaParamLoad(th)
    \/ \E th \in SaThreads : SaParamStore(th)
    \/ SaKernelEnd

(***************************************************************************)
(* C15: in SparseAdagrad, when INDICES names the same parameter row more   *)
(* than once, after the run every moment element of the row contains the   *)
(* squared-gradient contribution of every occurrence and every parameter   *)
(* element contains every occurrence's update, under every interleaving of *)
(* the threads.                                                            *)
(***************************************************************************)
\* the gradient elements that go to parameter element e
C15_Occurrences(e) == {i \in 0..(saIn.n * saIn.sliceSz - 1) : SaParamIdx(i) = e}

C15_NoLostUpdate ==
    (saPc = "done") =>
        \A e \in DOMAIN saMom :
            /\ saMom[e] = C15_Occurrences(e)
            /\ saParam[e] = C15_Occurrences(e)

\* without a repeated index every element has its one contribution
C15_NoLossWithoutRepeats ==
    (saPc = "done" /\ \A k, l \in DOMAIN saIn.indices :
                          saIn.indices[k] = saIn.indices[l] => k = l)
        => \A e \in DOMAIN saMom :
              /\ saMom[e] = C15_Occurrences(e)
              /\ saParam[e] = C15_Occurrences(e)

\* RowWiseSparseAdagradKernel: after a run on a non-empty gradient the
\* moment of every row contains the contribution of every occurrence
C15_RowWiseMoment ==
    (agPc = "done" /\ agIn.N > 0)
        => \A r \in DOMAIN agMom :
              agMom[r] = {i \in 0..(agIn.M - 1) : agIn.indices[i + 1] = r}

\* the run is over and a moment element named twice holds one contribution
C15_LostMoment ==
    /\ saPc = "done"
    /\ \E e \in DOMAIN saMom :
          Cardinality(C15_Occurrences(e)) = 2 /\ Cardinality(saMom[e]) = 1

(***************************************************************************)
(* operators/boolean_unmask_ops_hip.cc: ComputeIndicesKernel and           *)
(* FillValuesKernel, run one after the other on the context's stream.      *)
(* Positions, masks and items are numbered from 0 as in the code; a byte   *)
(* of a values tensor is a positive number, an uninitialised byte is -1.   *)
(***************************************************************************)
UkThreads == (0..(UkMaxBlocks - 1)) \X (0..(UkMaxThreads - 1))

UkNumMasks == Len(ukIn.masks)

\* masks[j][i]
UkMask(j, i) == ukIn.masks[j + 1][i + 1]

\* valueSizes[j]: value.size()
UkValueSize(j) == Len(ukIn.values[j + 1]) \div ukIn.itemSize

\* the for loop over j of ComputeIndicesKernel at position i: the first j
\* from j on with masks[j][i], or -1 when the loop ends without one
RECURSIVE UkFirstMask(_, _)
UkFirstMask(j, i) ==
    IF j >= UkNumMasks THEN -1
    ELSE IF UkMask(j, i) THEN j
    ELSE UkFirstMask(j + 1, i)

\* the loop variable of a thread that is not in a kernel
UkOut == [p |-> -1, i |-> 0, k |-> 0]

\* HIP_1D_KERNEL_LOOP(p, n): the loop test
UkEnter(p, n) == IF p < n THEN [p |-> p, i |-> 0, k |-> 0] ELSE UkOut

\* the threads of a launch on grid blocks, each at the start of its
\* grid-stride loop over n
UkLaunch(grid, n) ==
    [th \in UkThreads |->
        IF th[1] < grid /\ th[2] < ukIn.numThreads
        THEN UkEnter(th[1] * ukIn.numThreads + th[2], n) ELSE UkOut]

\* RunOnDevice: the launch of ComputeIndicesKernel on
\* min(maskSize, CAFFE_MAXIMUM_NUM_BLOCKS) blocks
UnmaskLaunchIndices ==
    /\ ukPc = "start"
    /\ ukPc' = "indices"
    /\ ukGrid' = Min2(ukIn.maskSize, ukIn.maxBlocks)
    /\ ukNext' = UkLaunch(Min2(ukIn.maskSize, ukIn.maxBlocks), ukIn.maskSize)
    /\ UNCHANGED <<ukIn, ukIndices, ukAssigned, ukDest, ukWriters>>
    /\ UNCHANGED <<devVars, bmVars, lnVars, opVars, s2dVars, agVars, pyVars, rkVars, saVars, smVars>>

\* where a thread of ComputeIndicesKernel goes after indices[i] = j: return
UkAfterAssign(i) == UkOut

\* one iteration of the grid-stride loop of ComputeIndicesKernel in thread
\* th: indices[i] = j and return, or HIP_KERNEL_ASSERT(false)
ComputeIndicesKernel(th) ==
    /\ ukPc = "indices"
    /\ ukNext[th].p >= 0
    /\ LET i == ukNext[th].p
           j == UkFirstMask(0, i)
       IN  IF j >= 0
           THEN /\ ukIndices' = [ukIndices EXCEPT ![i] = j]
                /\ ukAssigned' = ukAssigned \cup {i}
                /\ ukNext' = [ukNext EXCEPT ![th] = UkAfterAssign(i)]
                /\ UNCHANGED ukPc
           ELSE /\ ukPc' = "trapIndices"
                /\ UNCHANGED <<ukIndices, ukAssigned, ukNext>>
    /\ UNCHANGED <<ukIn, ukGrid, ukDest, ukWriters>>
    /\ UNCHANGED <<devVars, bmVars, lnVars, opVars, s2dVars, agVars, pyVars, rkVars, saVars, smVars>>

\* ComputeIndicesKernel has ended: the stream goes on to FillValuesKernel,
\* launched on min(numMasks, CAFFE_MAXIMUM_NUM_BLOCKS) blocks
UnmaskLaunchFill ==
    /\ ukPc = "indices"
    /\ \A th \in UkThreads : ukNext[th].p < 0
    /\ ukPc' = "fill"
    /\ ukGrid' = Min2(UkNumMasks, ukIn.maxBlocks)
    /\ ukNext' = UkLaunch(Min2(UkNumMasks, ukIn.maxBlocks), UkNumMasks)
    /\ UNCHANGED <<ukIn, ukIndices, ukAssigned, ukDest, ukWriters>>
    /\ UNCHANGED <<devVars, bmVars, lnVars, opVars, s2dVars, agVars, pyVars, rkVars, saVars, smVars>>

\* the item of values[j] taken for position i by the position itself
UkSrcItemByPosition(i, k) == i

\* the item of values[j] taken for position i, the k-th assigned to j
UkSrcItem(i, k) == k

\* values[j][b]; a read past the end of the tensor gives any byte
UkValueByte(j, b) ==
    IF b < Len(ukIn.values[j + 1]) THEN ukIn.values[j + 1][b + 1] ELSE ukIn.garbage

\* the loop over i of FillValuesKernel from i on: the first position with
\* indices[i] == j, or maskSize when the loop ends without one
RECURSIVE UkNextPosition(_, _)
UkNextPosition(j, i) ==
    IF i >= ukIn.maskSize THEN ukIn.maskSize
    ELSE IF ukIndices[i] = j THEN i
    ELSE UkNextPosition(j, i + 1)

\* HIP_KERNEL_ASSERT(valueSizes[j] == k), then j += hipBlockDim_x *
\* hipGridDim_x and the loop test; <<>> when the assertion trips
UkAfterLoop(j, k) ==
    IF UkValueSize(j) = k
    THEN UkEnter(j + ukIn.numThreads * ukGrid, UkNumMasks)
    ELSE <<>>

\* thread th of FillValuesKernel goes through the loop over i up to the next
\* position with indices[i] == j and writes its item; past the last such
\* position it goes on to the end of the loop, the assertion and the next j
FillValuesKernel(th) ==
    /\ ukPc = "fill"
    /\ ukNext[th].p >= 0
    /\ LET j == ukNext[th].p
           k == ukNext[th].k
           sz == ukIn.itemSize
           i == UkNextPosition(j, ukNext[th].i)
           bytes == {i * sz + h : h \in 0..(sz - 1)}
           last == UkNextPosition(j, i + 1) = ukIn.maskSize
           k2 == IF i < ukIn.maskSize THEN k + 1 ELSE k
       IN  /\ IF i < ukIn.maskSize
              THEN /\ ukDest' = [b \in DOMAIN ukDest |->
                         IF b \in bytes
                         THEN UkValueByte(j, UkSrcItem(i, k) * sz + (b - i * sz))
                         ELSE ukDest[b]]
                   /\ ukWriters' = [b \in DOMAIN ukWriters |->
                         IF b \in bytes THEN ukWriters[b] \cup {th}
                         ELSE ukWriters[b]]
              ELSE UNCHANGED <<ukDest, ukWriters>>
           /\ IF ~last
              THEN /\ ukNext' = [ukNext EXCEPT ![th] =
                         [p |-> j, i |-> i + 1, k |-> k2]]
                   /\ UNCHANGED ukPc
              ELSE IF UkAfterLoop(j, k2) # <<>>
              THEN /\ ukNext' = [ukNext EXCEPT ![th] = UkAfterLoop(j, k2)]
                   /\ UNCHANGED ukPc
              ELSE /\ ukPc' = "trapFill"
                   /\ ukNext' = [ukNext EXCEPT ![th] =
                         [p |-> j, i |-> ukIn.maskSize, k |-> k2]]
    /\ UNCHANGED <<ukIn, ukGrid, ukIndices, ukAssigned>>
    /\ UNCHANGED <<devVars, bmVars, lnVars, opVars, s2dVars, agVars, pyVars, rkVars, saVars, smVars>>

\* FillValuesKernel has ended
UnmaskKernelsEnd ==
    /\ ukPc = "fill"
    /\ \A th \in UkThreads : ukNext[th].p < 0
    /\ ukPc' = "done"
    /\ UNCHANGED <<ukIn, ukGrid, ukNext, ukIndices, ukAssigned, ukDest, ukWriters>>
    /\ UNCHANGED <<devVars, bmVars, lnVars, opVars, s2dVars, agVars, pyVars, rkVars, saVars, smVars>>

UkStartValues ==
    /\ ukPc = "start"
    /\ ukGrid = 0
    /\ ukNext = [th \in UkThreads |-> UkOut]
    /\ ukAssigned = {}

\* the bytes of values tensor j of n items: each byte differs from every
\* other byte of the run
UkValues(j, n, itemSize) == [b \in 1..(n * itemSize) |-> 100 * (j + 1) + b]

\* the number of positions whose first true mask is j
UkCount(masks, j) ==
    Cardinality({i \in 1..Len(masks[1]) :
        /\ masks[j][i]
        /\ \A l \in 1..(j - 1) : ~masks[l][i]})

\* BooleanMask(x, m) for a 1-D x of items of itemSize bytes: the rows
\* selected by Flagged, copied by BooleanMaskCopyKernel
BooleanMaskOutput(x, m, itemSize) ==
    LET indices == SelectFlagged(m, Len(m)) IN
    [b \in 1..(Len(indices) * itemSize) |->
        LET i == (b - 1) \div itemSize
            h == (b - 1) % itemSize
        IN  x[CopySrcBase(indices, i, itemSize) + h + 1]]

\* the inputs that pass the checks of RunOnDevice: numMasks masks of
\* maskSize flags each, and for each a values tensor that has one item per
\* position whose first true mask it is, but that the first may have one
\* item more or the last one item less
UkGeneralInputs(numMasks, maskSize, itemSize) ==
    UNION {
        {[masks |-> masks,
          values |-> [j \in 1..numMasks |->
             UkValues(j - 1,
                      UkCount(masks, j) + (IF j = off[1] THEN off[2] ELSE 0),
                      itemSize)],
          x |-> <<>>] :
            off \in {<<0, 0>>} \cup
                    {o \in {<<1, 1>>, <<numMasks, -1>>} :
                         maskSize > 0 /\ UkCount(masks, o[1]) + o[2] >= 0}} :
        masks \in [1..numMasks -> [1..maskSize -> BOOLEAN]]}

\* the pairs (m, BooleanMask(x, m)) and (not m, BooleanMask(x, not m)) for a
\* 1-D x of maskSize items
UkRoundTripInputs(maskSize, itemSize) ==
    {LET x == [b \in 1..(maskSize * itemSize) |-> b]
         notM == [i \in 1..maskSize |-> ~m[i]]
     IN  [masks |-> <<m, notM>>,
          values |-> <<BooleanMaskOutput(x, m, itemSize),
                       BooleanMaskOutput(x, notM, itemSize)>>,
          x |-> x] : m \in [1..maskSize -> BOOLEAN]}

\* what an uninitialised int of indices_ or a byte past the end of a values
\* tensor reads as, in the runs that can read one: those whose mask has more
\* positions than ComputeIndicesKernel has threads, and those with a values
\* tensor that is short of items
UkGarbage(in, maskSize, itemSize, nt, mb) ==
    IF \/ maskSize > Min2(maskSize, mb) * nt
       \/ \E j \in 1..Len(in.masks) :
             Len(in.values[j]) < UkCount(in.masks, j) * itemSize
    THEN {-1, 0} ELSE {-1}

\* indices_ and the output start uninitialised
UkInit ==
    /\ \E maskSize \in 0..UmMaxSize, itemSize \in {1, 2},
          nt \in 1..UkMaxThreads, mb \in 1..UkMaxBlocks :
       \E in \in UkRoundTripInputs(maskSize, itemSize) \cup
                 UNION {UkGeneralInputs(n, maskSize, itemSize) : n \in 1..UmMaxMasks} :
       \E g \in UkGarbage(in, maskSize, itemSize, nt, mb) :
          /\ ukIn = [masks |-> in.masks, values |-> in.values, x |-> in.x,
                     maskSize |-> maskSize, itemSize |-> itemSize,
                     numThreads |-> nt, maxBlocks |-> mb, garbage |-> g]
          /\ ukIndices = [i \in 0..(maskSize - 1) |-> g]
          /\ ukDest = [b \in 0..(maskSize * itemSize - 1) |-> -1]
          /\ ukWriters = [b \in 0..(maskSize * itemSize - 1) |-> {}]
    /\ UkStartValues

UkIdle ==
    /\ ukIn = [masks |-> <<>>, values |-> <<>>, x |-> <<>>, maskSize |-> 0,
               itemSize |-> 1, numThreads |-> 1, maxBlocks |-> 1, garbage |-> -1]
    /\ ukIndices = <<>>
    /\ ukDest = <<>>
    /\ ukWriters = <<>>
    /\ UkStartValues

UkNext ==
    \/ UnmaskLaunchIndices
    \/ \E th \in UkThreads : ComputeIndicesKernel(th)
    \/ UnmaskLaunchFill
    \/ \E th \in UkThreads : FillValuesKernel(th)
    \/ UnmaskKernelsEnd

(***************************************************************************)
(* C16: for every position i in [0, maskSize), ComputeIndicesKernel either *)
(* sets indices[i] to the lowest-numbered mask that is true at i, or trips *)
(* the kernel assertion when no mask is true at i; no position is left     *)
(* unassigned, also when maskSize exceeds the number of launched threads.  *)
(***************************************************************************)
\* the lowest-numbered mask that is true at position i, or -1
C16_Lowest(i) ==
    IF \E j \in 0..(UkNumMasks - 1) : UkMask(j, i)
    THEN CHOOSE j \in 0..(UkNumMasks - 1) :
            UkMask(j, i) /\ \A l \in 0..(j - 1) : ~UkMask(l, i)
    ELSE -1

C16_Positions == 0..(ukIn.maskSize - 1)

\* the kernel has ended without tripping its assertion
C16_KernelOver == ukPc \in {"fill", "done", "trapFill"}

C16_AllAssigned ==
    /\ C16_KernelOver =>
          \A i \in C16_Positions :
             i \in ukAssigned /\ C16_Lowest(i) >= 0 /\ ukIndices[i] = C16_Lowest(i)
    /\ (ukPc = "trapIndices") => \E i \in C16_Positions : C16_Lowest(i) = -1

\* the same for a mask that has no more positions than the launch has
\* threads, and in general for the positions below the number of threads
C16_AssignedWithinLaunch ==
    /\ C16_KernelOver =>
          \A i \in C16_Positions :
             IF i < Min2(ukIn.maskSize, ukIn.maxBlocks) * ukIn.numThreads
             THEN i \in ukAssigned /\ ukIndices[i] = C16_Lowest(i)
             ELSE i \notin ukAssigned /\ ukIndices[i] = ukIn.garbage
    /\ (ukPc = "trapIndices") => \E i \in C16_Positions : C16_Lowest(i) = -1

\* the kernel is over and position 1, which has a true mask, was left as it
\* was: the one thread returned after position 0
C16_LeftUnassigned ==
    /\ C16_KernelOver
    /\ ukIn.maskSize = 2 /\ ukIn.numThreads = 1
    /\ 0 \in ukAssigned /\ 1 \notin ukAssigned /\ C16_Lowest(1) >= 0

(***************************************************************************)
(* C17: FillValuesKernel writes, for every mask j and every position i     *)
(* with indices[i] = j, the k-th item of values[j] to output position i,   *)
(* where k is the number of earlier positions assigned to j; it asserts    *)
(* that values[j] has exactly as many items as positions are assigned to   *)
(* j; and no output byte is written by more than one thread.               *)
(***************************************************************************)
\* the positions assigned to mask j
C17_PositionsOf(j) == {i \in 0..(ukIn.maskSize - 1) : ukIndices[i] = j}

\* the number of earlier positions assigned to the mask of position i
C17_ItemNo(i) == Cardinality({e \in C17_PositionsOf(ukIndices[i]) : e < i})

C17_FillValues ==
    /\ \A b \in DOMAIN ukWriters : Cardinality(ukWriters[b]) <= 1
    /\ (ukPc = "done") =>
          \A j \in 0..(UkNumMasks - 1) :
             /\ UkValueSize(j) = Cardinality(C17_PositionsOf(j))
             /\ \A i \in C17_PositionsOf(j) : \A h \in 0..(ukIn.itemSize - 1) :
                   ukDest[i * ukIn.itemSize + h]
                      = ukIn.values[j + 1][C17_ItemNo(i) * ukIn.itemSize + h + 1]
    /\ (ukPc = "trapFill") =>
          \E j \in 0..(UkNumMasks - 1) :
             UkValueSize(j) # Cardinality(C17_PositionsOf(j))

\* two masks over two positions of two bytes each, the second mask true at
\* position 0 only: the output is complete, position 1 holds the first item
\* of values[0]
C17_Witness ==
    /\ ukPc = "done" /\ UkNumMasks = 2 /\ ukIn.maskSize = 2 /\ ukIn.itemSize = 2
    /\ ukIndices = [i \in 0..1 |-> 1 - i]
    /\ ukDest[2] = ukIn.values[1][1] /\ ukDest[3] = ukIn.values[1][2]
    /\ ukDest[0] = ukIn.values[2][1] /\ ukDest[1] = ukIn.values[2][2]

\* the assertion of FillValuesKernel has tripped on a values tensor that is
\* one item short
C17_WitnessTrap ==
    /\ ukPc = "trapFill"
    /\ \E j \in 0..(UkNumMasks - 1) :
          UkValueSize(j) + 1 = Cardinality(C17_PositionsOf(j))

(***************************************************************************)
(* C18: for any 1-D tensor x and boolean mask m of the same length,        *)
(* feeding BooleanUnmask the pairs (m, BooleanMask(x, m)) and (not m,      *)
(* BooleanMask(x, not m)) reproduces x exactly.                            *)
(***************************************************************************)
C18_IsRoundTrip == ukIn.x # <<>>

C18_RoundTrip ==
    C18_IsRoundTrip =>
        /\ ukPc \notin {"trapIndices", "trapFill"}
        /\ (ukPc = "done") => \A b \in DOMAIN ukDest : ukDest[b] = ukIn.x[b + 1]

\* the round trip of an x that has no more items than the launch of
\* ComputeIndicesKernel has threads
C18_RoundTripWithinLaunch ==
    (/\ C18_IsRoundTrip
     /\ ukIn.maskSize <= Min2(ukIn.maskSize, ukIn.maxBlocks) * ukIn.numThreads)
        => /\ ukPc \notin {"trapIndices", "trapFill"}
           /\ (ukPc = "done") => \A b \in DOMAIN ukDest : ukDest[b] = ukIn.x[b + 1]

\* a round trip of two items of two bytes, the first one masked out, has
\* reproduced x
C18_Witness ==
    /\ C18_IsRoundTrip /\ ukPc = "done"
    /\ ukIn.maskSize = 2 /\ ukIn.itemSize = 2 /\ ukIn.masks[1] = <<FALSE, TRUE>>
    /\ \A b \in DOMAIN ukDest : ukDest[b] = ukIn.x[b + 1]

\* a round trip of two items on one thread: position 1 of indices_ was left
\* uninitialised and the run does not reproduce x
C18_Lost ==
    /\ C18_IsRoundTrip /\ ukIn.maskSize = 2 /\ ukIn.numThreads = 1
    /\ \/ ukPc = "trapFill"
       \/ ukPc = "done" /\ \E b \in DOMAIN ukDest : ukDest[b] # ukIn.x[b + 1]

(***************************************************************************)
(* operators/boolean_mask_ops_hip.cc: sequenceMaskKernel as DoRunWithType  *)
(* launches it in mode "sequence" without repeat_from_axis, and the four   *)
(* triangular kernels upperMaskKernel, lowerMaskKernel,                    *)
(* upperDiagMaskKernel and lowerDiagMaskKernel, which have the same loops  *)
(* and differ in the comparison only.  A thread runs its whole grid-stride *)
(* loop in one step.  The input holds a different positive number at every *)
(* position.                                                               *)
(***************************************************************************)
SmThreads == (0..(SmMaxBlocks - 1)) \X (0..(SmMaxThreads - 1))

\* canonical_batch: non-negative if batching, -1 otherwise
SmCanonicalBatch(in) ==
    IF in.hasBatch THEN CanonicalAxisIndex(in.batch, Len(in.dims)) ELSE -1

\* left: the product of the dims up to the axis, or between batch and axis
SmLeft(in) ==
    LET axis == CanonicalAxisIndex(in.axis, Len(in.dims))
        batch == SmCanonicalBatch(in)
    IN  IF batch >= 0 THEN SizeBetweenDim(in.dims, batch, axis)
        ELSE SizeToDim(in.dims, axis)

\* right: the product of the dims from the axis on
SmRight(in) == SizeFromDim(in.dims, CanonicalAxisIndex(in.axis, Len(in.dims)))

\* batch_dim: the product of the dims up to and including batch, or -1
SmBatchDim(in) ==
    LET batch == SmCanonicalBatch(in)
    IN  IF batch >= 0 THEN SizeToDim(in.dims, batch) * in.dims[batch + 1] ELSE -1

\* T fill_val = convert::To<float, T>(grad_ ? 0.0f : fill_val_)
SmFillVal(in) == IF in.grad THEN 0 ELSE in.fillVal

\* the bound of the kernel's loop: B * N * M when batching, else N * M
SmLoopBound == IF smArgs.B >= 0 THEN smArgs.B * smArgs.N * smArgs.M
               ELSE smArgs.N * smArgs.M

\* int k = index % M
SmK(index) == index % smArgs.M

\* the row taken without the reduction modulo N
SmJUnreduced(index) == (index - SmK(index)) \div smArgs.M

\* int j = (index - k) / M % N
SmJ(index) == ((index - SmK(index)) \div smArgs.M) % smArgs.N

\* int i = (index - M * j - k) / (N * M)
SmI(index) ==
    (index - smArgs.M * SmJ(index) - SmK(index)) \div (smArgs.N * smArgs.M)

\* int ind = N * M * i + M * j + k
SmInd(index) ==
    smArgs.N * smArgs.M * SmI(index) + smArgs.M * SmJ(index) + SmK(index)

\* the comparison with the sequence length taken strictly
SmMaskedStrict(col, len) == col > len

\* k >= seq_lengths[j], j >= seq_lengths[i]
SmMasked(col, len) == col >= len

\* the position that the iteration for index writes
SmDest(index) == IF smArgs.B >= 0 THEN SmInd(index) ELSE index

\* the comparisons of the triangular kernels with upper and upperdiag
\* exchanged
SmTriMaskedExchanged(mode, row, col) ==
    CASE mode = "upper" -> col >= row
      [] mode = "lower" -> col < row
      [] mode = "upperdiag" -> col > row
      [] mode = "lowerdiag" -> col <= row

\* the comparisons of upperMaskKernel (k > j, j > i), lowerMaskKernel
\* (k < j, j < i), upperDiagMaskKernel (k >= j, j >= i) and
\* lowerDiagMaskKernel (k <= j, j <= i)
SmTriMasked(mode, row, col) ==
    CASE mode = "upper" -> col > row
      [] mode = "lower" -> col < row
      [] mode = "upperdiag" -> col >= row
      [] mode = "lowerdiag" -> col <= row

\* the value that the iteration for index of a triangular kernel writes in
\* its branch B >= 0 and in its other branch
SmTriValue(B, index) ==
    IF B >= 0
    THEN (IF SmTriMasked(smIn.mode, SmJ(index), SmK(index))
          THEN smArgs.fillVal ELSE smIn.data[SmInd(index) + 1])
    ELSE (IF SmTriMasked(smIn.mode, index \div smArgs.M, index % smArgs.M)
          THEN smArgs.fillVal ELSE smIn.data[index + 1])

\* the value that the iteration for index writes
SmValue(index) ==
    IF smIn.mode # "sequence" THEN SmTriValue(smArgs.B, index)
    ELSE IF smArgs.B >= 0
    THEN (IF SmMasked(SmK(index), smIn.seqLengths[SmJ(index) + 1])
          THEN smArgs.fillVal ELSE smIn.data[SmInd(index) + 1])
    ELSE (IF SmMasked(index % smArgs.M, smIn.seqLengths[(index \div smArgs.M) + 1])
          THEN smArgs.fillVal ELSE smIn.data[index + 1])

\* the indices of the grid-stride loop of thread th
SmIndices(th) ==
    LET first == th[1] * smIn.numThreads + th[2]
        stride == smIn.numThreads * smGrid
    IN  {index \in 0..(SmLoopBound - 1) :
            index >= first /\ (index - first) % stride = 0}

\* DoRunWithType: left, right, batch_dim and fill_val, then the launch on
\* CAFFE_GET_BLOCKS(left * right) blocks
SequenceMaskLaunch ==
    /\ smPc = "start"
    /\ LET grid == CaffeGetBlocks(SmLeft(smIn) * SmRight(smIn), smIn.numThreads,
                                  smIn.maxBlocks)
       IN  /\ smPc' = "kernel"
           /\ smGrid' = grid
           /\ smArgs' = [N |-> SmLeft(smIn), M |-> SmRight(smIn),
                         B |-> SmBatchDim(smIn), fillVal |-> SmFillVal(smIn)]
           /\ smPending' = {th \in SmThreads :
                               th[1] < grid /\ th[2] < smIn.numThreads}
    /\ UNCHANGED <<smIn, smOut, smWrites>>
    /\ UNCHANGED <<devVars, bmVars, lnVars, opVars, s2dVars, agVars, pyVars, rkVars, saVars, ukVars>>

\* thread th of sequenceMaskKernel
sequenceMaskKernel(th) ==
    /\ smPc = "kernel"
    /\ th \in smPending
    /\ smOut' = [pos \in DOMAIN smOut |->
          IF \E index \in SmIndices(th) : SmDest(index) = pos
          THEN SmValue(CHOOSE index \in SmIndices(th) :
                  /\ SmDest(index) = pos
                  /\ \A later \in SmIndices(th) :
                        SmDest(later) = pos => later <= index)
          ELSE smOut[pos]]
    /\ smWrites' = [pos \in DOMAIN smWrites |->
          smWrites[pos]
             + Cardinality({index \in SmIndices(th) : SmDest(index) = pos})]
    /\ smPending' = smPending \ {th}
    /\ UNCHANGED <<smIn, smPc, smGrid, smArgs>>
    /\ UNCHANGED <<devVars, bmVars, lnVars, opVars, s2dVars, agVars, pyVars, rkVars, saVars, ukVars>>

\* every thread has left the kernel
SmKernelEnd ==
    /\ smPc = "kernel"
    /\ smPending = {}
    /\ smPc' = "done"
    /\ UNCHANGED <<smIn, smGrid, smArgs, smPending, smOut, smWrites>>
    /\ UNCHANGED <<devVars, bmVars, lnVars, opVars, s2dVars, agVars, pyVars, rkVars, saVars, ukVars>>

SmStartValues ==
    /\ smPc = "start"
    /\ smGrid = 0
    /\ smArgs = [N |-> 0, M |-> 0, B |-> -1, fillVal |-> 0]
    /\ smPending = {}

\* shapes of Input(0): rank 1, 2 and 3, of at most SmMaxSize elements
SmShapes ==
    {dims \in {<<n>> : n \in 1..SmMaxDim}
         \cup {<<b, n>> : b \in 1..SmMaxDim, n \in 1..SmMaxDim}
         \cup {<<b, n, m>> : b \in 1..SmMaxDim, n \in 1..SmMaxDim,
                             m \in 1..SmMaxDim} :
        Prod(dims) <= SmMaxSize}

\* the inputs that pass the checks of DoRunWithType: an axis of the input
\* and, when batching, a batch axis before it; the operator is configured
\* as a gradient in some of the runs without batch
SmInputs ==
    {in \in [dims : SmShapes, axis : 0..2, hasBatch : BOOLEAN, batch : 0..1,
             grad : BOOLEAN, numThreads : 1..SmMaxThreads,
             maxBlocks : 1..SmMaxBlocks] :
        /\ in.axis < Len(in.dims)
        /\ IF in.hasBatch THEN in.batch < in.axis /\ ~in.grad ELSE in.batch = 0}

\* sequence lengths for rows of M columns: row r has length (c + r) modulo
\* M + 2, so that over the rows and the c every length from 0 to M + 1 occurs
SmSeqLengths(N, M) ==
    {[r \in 1..N |-> (c + r - 1) % (M + 2)] : c \in 0..(M + 1)}

\* the output starts uninitialised (-1); the configured fill_val is -7
SmInit ==
    /\ \E in \in SmInputs :
       \E lens \in SmSeqLengths(SmLeft(in), SmRight(in)) :
          /\ smIn = [mode |-> "sequence",
                     dims |-> in.dims, axis |-> in.axis, hasBatch |-> in.hasBatch,
                     batch |-> in.batch, grad |-> in.grad, fillVal |-> -7,
                     numThreads |-> in.numThreads, maxBlocks |-> in.maxBlocks,
                     seqLengths |-> lens,
                     data |-> [e \in 1..Prod(in.dims) |-> e]]
          /\ smOut = [pos \in 0..(Prod(in.dims) - 1) |-> -1]
          /\ smWrites = [pos \in 0..(Prod(in.dims) - 1) |-> 0]
    /\ SmStartValues

\* the triangular modes of SequenceMask
SmTriModes == {"upper", "lower", "upperdiag", "lowerdiag"}

\* the inputs of the runs in the triangular modes: the operator is not a
\* gradient and has no second input
SmTriInit ==
    /\ \E in \in SmInputs : \E mode \in SmTriModes :
          /\ ~in.grad
          /\ smIn = [mode |-> mode,
                     dims |-> in.dims, axis |-> in.axis, hasBatch |-> in.hasBatch,
                     batch |-> in.batch, grad |-> FALSE, fillVal |-> -7,
                     numThreads |-> in.numThreads, maxBlocks |-> in.maxBlocks,
                     seqLengths |-> <<>>,
                     data |-> [e \in 1..Prod(in.dims) |-> e]]
          /\ smOut = [pos \in 0..(Prod(in.dims) - 1) |-> -1]
          /\ smWrites = [pos \in 0..(Prod(in.dims) - 1) |-> 0]
    /\ SmStartValues

SmIdle ==
    /\ smIn = [mode |-> "sequence",
               dims |-> <<>>, axis |-> 0, hasBatch |-> FALSE, batch |-> 0,
               grad |-> FALSE, fillVal |-> -7, numThreads |-> 1, maxBlocks |-> 1,
               seqLengths |-> <<>>, data |-> <<>>]
    /\ smOut = <<>>
    /\ smWrites = <<>>
    /\ SmStartValues

SmNext ==
    \/ SequenceMaskLaunch
    \/ \E th \in SmThreads : sequenceMaskKernel(th)
    \/ SmKernelEnd

(***************************************************************************)
(* C19: in the batched branch of sequenceMaskKernel (B >= 0) every flat    *)
(* index in [0, B*N*M) decomposes into (i, j, k) with 0 <= i < B,          *)
(* 0 <= j < N, 0 <= k < M and recomposes to the same flat index, so every  *)
(* element of the output is written exactly once, at its own position, for *)
(* every grid size.                                                        *)
(***************************************************************************)
C19_Batched == smPc # "start" /\ smArgs.B >= 0

C19_WrittenOnce ==
    C19_Batched =>
        /\ \A index \in 0..(smArgs.B * smArgs.N * smArgs.M - 1) :
              /\ SmI(index) \in 0..(smArgs.B - 1)
              /\ SmJ(index) \in 0..(smArgs.N - 1)
              /\ SmK(index) \in 0..(smArgs.M - 1)
              /\ SmInd(index) = index
        /\ \A pos \in DOMAIN smWrites : smWrites[pos] <= 1
        /\ (smPc = "done") =>
              \A pos \in 0..(Prod(smIn.dims) - 1) : smWrites[pos] = 1

\* a batched run over 2 batches of 2 rows of 2 columns on 2 blocks of 1
\* thread is over: each thread has gone through its loop 4 times
C19_Witness ==
    /\ C19_Batched /\ smPc = "done"
    /\ smArgs.B = 2 /\ smArgs.N = 2 /\ smArgs.M = 2
    /\ smGrid = 2 /\ smIn.numThreads = 1
    /\ \A pos \in 0..7 : smWrites[pos] = 1

(***************************************************************************)
(* C20: SequenceMask in mode "sequence" (no batch, no repeat_from_axis) on *)
(* an input viewed as N rows of M columns replaces element (i, j) by the   *)
(* fill value exactly when j >= seq_lengths[i] and copies the input        *)
(* element otherwise; the fill value is 0 when the operator is configured  *)
(* as a gradient and the configured fill_val otherwise.                    *)
(***************************************************************************)
C20_FillValue == IF smIn.grad THEN 0 ELSE smIn.fillVal

C20_SequenceMode ==
    (smPc = "done" /\ ~smIn.hasBatch) =>
        \A i \in 0..(smArgs.N - 1) : \A j \in 0..(smArgs.M - 1) :
            smOut[i * smArgs.M + j] =
                IF j >= smIn.seqLengths[i + 1] THEN C20_FillValue
                ELSE smIn.data[i * smArgs.M + j + 1]

\* a run that is not a gradient, on 2 rows of 2 columns with lengths 1 and
\* 2: the second element of the first row is the only one replaced
C20_Witness ==
    /\ smPc = "done" /\ ~smIn.hasBatch /\ ~smIn.grad
    /\ smArgs.N = 2 /\ smArgs.M = 2 /\ smIn.seqLengths = <<1, 2>>
    /\ smOut = [pos \in 0..3 |-> IF pos = 1 THEN -7 ELSE pos + 1]

\* a gradient run has replaced an element by 0
C20_WitnessGrad ==
    /\ smPc = "done" /\ ~smIn.hasBatch /\ smIn.grad
    /\ \E pos \in DOMAIN smOut : smOut[pos] = 0

(***************************************************************************)
(* C21: SequenceMask's triangular modes replace element (row i, column j)  *)
(* by the fill value exactly when j > i (upper), j < i (lower), j >= i     *)
(* (upperdiag), j <= i (lowerdiag); hence for every element exactly one of *)
(* upper / lowerdiag replaces it and exactly one of lower / upperdiag      *)
(* replaces it, and the batched and non-batched branches agree on a single *)
(* batch.                                                                  *)
(***************************************************************************)
C21_Row(pos) == (pos \div smArgs.M) % smArgs.N

C21_Col(pos) == pos % smArgs.M

C21_Replaces(mode, i, j) ==
    \/ mode = "upper" /\ j > i
    \/ mode = "lower" /\ j < i
    \/ mode = "upperdiag" /\ j >= i
    \/ mode = "lowerdiag" /\ j <= i

C21_Triangular ==
    /\ (smPc = "done" /\ smIn.mode \in SmTriModes) =>
          \A pos \in DOMAIN smOut :
             /\ smOut[pos] =
                   IF C21_Replaces(smIn.mode, C21_Row(pos), C21_Col(pos))
                   THEN smIn.fillVal ELSE smIn.data[pos + 1]
             /\ SmTriMasked("upper", C21_Row(pos), C21_Col(pos))
                   # SmTriMasked("lowerdiag", C21_Row(pos), C21_Col(pos))
             /\ SmTriMasked("lower", C21_Row(pos), C21_Col(pos))
                   # SmTriMasked("upperdiag", C21_Row(pos), C21_Col(pos))
    /\ (smPc # "start" /\ smIn.mode \in SmTriModes /\ smArgs.B = 1) =>
          \A index \in 0..(smArgs.N * smArgs.M - 1) :
             /\ SmTriValue(1, index) = SmTriValue(-1, index)
             /\ SmDest(index) = index

\* a run in mode upper on 2 rows of 2 columns, no batch: the second element
\* of the first row is the only one replaced
C21_Witness ==
    /\ smPc = "done" /\ smIn.mode = "upper" /\ ~smIn.hasBatch
    /\ smArgs.N = 2 /\ smArgs.M = 2
    /\ smOut = [pos \in 0..3 |-> IF pos = 1 THEN -7 ELSE pos + 1]

\* a run in mode lowerdiag on a single batch of 2 rows of 2 columns: the
\* first row keeps its second element only
C21_WitnessBatch ==
    /\ smPc = "done" /\ smIn.mode = "lowerdiag" /\ smIn.hasBatch
    /\ smArgs.B = 1 /\ smArgs.N = 2 /\ smArgs.M = 2
    /\ smOut = [pos \in 0..3 |-> IF pos = 1 THEN pos + 1 ELSE -7]

(***************************************************************************)
(* operators/rmac_regions_op_hip.cc: RMACRegionsKernel.  Each thread walks *)
(* the grid-stride loop over the N regions; in the body it computes its    *)
(* region, waits at __syncthreads(), stores the region in output_shared,   *)
(* waits at the second __syncthreads() and writes the output.              *)
(***************************************************************************)
RkThreads == (0..(RkMaxBlocks - 1)) \X (0..(RkMaxThreads - 1))

\* the threads the launch creates
RkLive == {th \in RkThreads : th[1] < rkGrid /\ th[2] < rkIn.numThreads}

\* the threads of block b
RkBlock(b) == {th \in RkLive : th[1] = b}

\* HIP_1D_KERNEL_LOOP(index, N): the test index < N, then the body up to
\* the first __syncthreads()
RkEnter(index) == IF index < rkIn.N THEN "sync1" ELSE "done"

\* RunOnDevice: the launch on CAFFE_GET_BLOCKS(N) blocks of
\* CAFFE_HIP_NUM_THREADS threads; index starts at
\* hipBlockIdx_x * hipBlockDim_x + hipThreadIdx_x
RMACRegionsLaunch ==
    /\ rkPc = "start"
    /\ LET grid == CaffeGetBlocks(rkIn.N, rkIn.numThreads, rkIn.maxBlocks)
           first(th) == th[1] * rkIn.numThreads + th[2]
       IN  /\ rkPc' = "kernel"
           /\ rkGrid' = grid
           /\ rkIndex' = [th \in RkThreads |->
                 IF th[1] < grid /\ th[2] < rkIn.numThreads
                 THEN first(th) ELSE 0]
           /\ rkThPc' = [th \in RkThreads |->
                 IF th[1] < grid /\ th[2] < rkIn.numThreads
                 THEN RkEnter(first(th)) ELSE "done"]
    /\ UNCHANGED <<rkIn, rkSyncs>>
    /\ UNCHANGED <<devVars, bmVars, lnVars, opVars, s2dVars, agVars, pyVars, saVars, ukVars, smVars>>

\* whether the barrier of block b can open.  A barrier that a thread of the
\* block has left the kernel without reaching is undefined: the device
\* either counts the threads that have exited as arrived, or waits for them
\* for ever
RkBarrierOpens(b) ==
    /\ \E th \in RkBlock(b) : rkThPc[th] \in {"sync1", "sync2"}
    /\ \A th \in RkBlock(b) : rkThPc[th] \in {"sync1", "sync2", "done"}
    /\ rkIn.exitedArrive \/ \A th \in RkBlock(b) : rkThPc[th] # "done"

\* __syncthreads() of block b opens: out of the first the threads go on to
\* fill output_shared, out of the second to write the output
RkBarrier(b) ==
    /\ rkPc = "kernel"
    /\ RkBarrierOpens(b)
    /\ rkThPc' = [th \in RkThreads |->
          IF th \in RkBlock(b) /\ rkThPc[th] = "sync1" THEN "stage"
          ELSE IF th \in RkBlock(b) /\ rkThPc[th] = "sync2" THEN "write"
          ELSE rkThPc[th]]
    /\ rkSyncs' = [th \in RkThreads |->
          IF th \in RkBlock(b) /\ rkThPc[th] # "done"
          THEN rkSyncs[th] + 1 ELSE rkSyncs[th]]
    /\ UNCHANGED <<rkIn, rkPc, rkGrid, rkIndex>>
    /\ UNCHANGED <<devVars, bmVars, lnVars, opVars, s2dVars, agVars, pyVars, saVars, ukVars, smVars>>

\* output_shared[hipThreadIdx_x * 5 + i] = roi[i], then the second
\* __syncthreads()
RkStage(th) ==
    /\ rkPc = "kernel" /\ rkThPc[th] = "stage"
    /\ rkThPc' = [rkThPc EXCEPT ![th] = "sync2"]
    /\ UNCHANGED <<rkIn, rkPc, rkGrid, rkIndex, rkSyncs>>
    /\ UNCHANGED <<devVars, bmVars, lnVars, opVars, s2dVars, agVars, pyVars, saVars, ukVars, smVars>>

\* the write of the output, then index += hipBlockDim_x * hipGridDim_x and
\* the loop test
RkWrite(th) ==
    /\ rkPc = "kernel" /\ rkThPc[th] = "write"
    /\ rkIndex' = [rkIndex EXCEPT ![th] = @ + rkIn.numThreads * rkGrid]
    /\ rkThPc' = [rkThPc EXCEPT
          ![th] = RkEnter(rkIndex[th] + rkIn.numThreads * rkGrid)]
    /\ UNCHANGED <<rkIn, rkPc, rkGrid, rkSyncs>>
    /\ UNCHANGED <<devVars, bmVars, lnVars, opVars, s2dVars, agVars, pyVars, saVars, ukVars, smVars>>

\* every thread has left the kernel
RkKernelEnd ==
    /\ rkPc = "kernel"
    /\ \A th \in RkThreads : rkThPc[th] = "done"
    /\ rkPc' = "done"
    /\ UNCHANGED <<rkIn, rkGrid, rkThPc, rkIndex, rkSyncs>>
    /\ UNCHANGED <<devVars, bmVars, lnVars, opVars, s2dVars, agVars, pyVars, saVars, ukVars, smVars>>

RkStartValues ==
    /\ rkPc = "start"
    /\ rkGrid = 0
    /\ rkThPc = [th \in RkThreads |-> "done"]
    /\ rkIndex = [th \in RkThreads |-> 0]
    /\ rkSyncs = [th \in RkThreads |-> 0]

\* N = batch_size * num_rois regions
RkInit ==
    /\ \E N \in 0..RkMaxN, nt \in 1..RkMaxThreads, mb \in 1..RkMaxBlocks,
          ea \in BOOLEAN :
          rkIn = [N |-> N, numThreads |-> nt, maxBlocks |-> mb,
                  exitedArrive |-> ea]
    /\ RkStartValues

RkIdle ==
    /\ rkIn = [N |-> 0, numThreads |-> 1, maxBlocks |-> 1, exitedArrive |-> TRUE]
    /\ RkStartValues

RkNext ==
    \/ RMACRegionsLaunch
    \/ \E b \in 0..(RkMaxBlocks - 1) : RkBarrier(b)
    \/ \E th \in RkThreads : RkStage(th)
    \/ \E th \in RkThreads : RkWrite(th)
    \/ RkKernelEnd

(***************************************************************************)
(* C13: in RMACRegionsKernel every __syncthreads() is reached by all the   *)
(* threads of the block the same number of times, for every N: no thread   *)
(* waits at a barrier that another thread of its block, having left the    *)
(* kernel, never reaches, and when the kernel is over the threads of a     *)
(* block have passed the same number of barriers.                          *)
(***************************************************************************)
C13_BarriersReached ==
    \A th1 \in RkLive : \A th2 \in RkBlock(th1[1]) :
        /\ (rkThPc[th1] \in {"sync1", "sync2"} /\ rkThPc[th2] = "done")
              => rkSyncs[th2] > rkSyncs[th1]
        /\ (rkPc = "done") => (rkSyncs[th1] = rkSyncs[th2])

\* as long as no thread of a block has left the loop, the threads of the
\* block have passed the same number of barriers or differ by the one that
\* is opening
C13_LockstepInLoop ==
    \A th1 \in RkLive : \A th2 \in RkBlock(th1[1]) :
        (rkThPc[th1] # "done" /\ rkThPc[th2] # "done")
            => rkSyncs[th1] = rkSyncs[th2]

C13_Witness ==
    /\ rkPc = "kernel"
    /\ \E th1 \in RkLive : \E th2 \in RkBlock(th1[1]) :
          /\ rkThPc[th1] = "sync2" /\ rkThPc[th2] = "sync2"
          /\ rkSyncs[th1] = 1 /\ rkSyncs[th2] = 1 /\ th1 # th2

(***************************************************************************)
(* operators/rmac_regions_op_hip.cc: the index arithmetic of               *)
(* RMACRegionsKernel on roi_id = index % num_rois.                         *)
(***************************************************************************)
\* do { roi_id -= num_rois_at_scale; l++; num_rois_at_scale = (l + Wd) *
\* (l + Hd); } while (roi_id - num_rois_at_scale >= 0): the l and the roi_id
\* the loop ends with, entered with l, num_rois_at_scale
RECURSIVE RkScaleSearch(_, _, _, _, _)
RkScaleSearch(roi_id, l, num_rois_at_scale, Wd, Hd) ==
    LET id == roi_id - num_rois_at_scale
        num == (l + 1 + Wd) * (l + 1 + Hd)
    IN  IF id - num >= 0 THEN RkScaleSearch(id, l + 1, num, Wd, Hd)
        ELSE <<l + 1, id>>

\* int region_size = 2 * min(H, W) / (l + 1)
RkRegionSize(l, H, W) == (2 * Min2(H, W)) \div (l + 1)

\* the scale l, the roi_id relative to the scale, i = roi_id / (l + Hd) and
\* j = roi_id % (l + Hd) of the region roi_id
RkRegion(roi_id, Wd, Hd) ==
    LET found == RkScaleSearch(roi_id, 0, 0, Wd, Hd)
    IN  [l |-> found[1], id |-> found[2],
         i |-> found[2] \div (found[1] + Hd), j |-> found[2] % (found[1] + Hd)]

(***************************************************************************)
(* C22: the region count written by NumRMACRegionsKernel is consistent     *)
(* with the enumeration in RMACRegionsKernel: for every roi_id in          *)
(* [0, num_rois) the scale search ends at a scale l with 1 <= l <= scales  *)
(* and region_size = 2*min(H,W)/(l+1) > 0, the id relative to that scale   *)
(* lies in [0, (l+Wd)*(l+Hd)), and distinct roi_ids map to distinct        *)
(* (l, i, j) triples; at most one of Wd, Hd is non-zero.                   *)
(***************************************************************************)
C22_Ran ==
    /\ opIn.op = "RMACRegions" /\ opResult = "ok"
    /\ ~RMACEmptyReturnsEarly(opIn.dims)

C22_Triple(roi_id) ==
    LET r == RkRegion(roi_id, rmacNumRois[2], rmacNumRois[3])
    IN  <<r.l, r.i, r.j>>

C22_CountMatchesEnumeration ==
    C22_Ran =>
        LET num_rois == rmacNumRois[1]
            Wd == rmacNumRois[2]
            Hd == rmacNumRois[3]
        IN  /\ Wd = 0 \/ Hd = 0
            /\ \A roi_id \in 0..(num_rois - 1) :
                  LET r == RkRegion(roi_id, Wd, Hd)
                  IN  /\ 1 <= r.l /\ r.l <= opArgs.scales
                      /\ RkRegionSize(r.l, opIn.dims[3], opIn.dims[4]) > 0
                      /\ 0 <= r.id /\ r.id < (r.l + Wd) * (r.l + Hd)
            /\ \A id1 \in 0..(num_rois - 1) : \A id2 \in 0..(num_rois - 1) :
                  id1 # id2 => C22_Triple(id1) # C22_Triple(id2)

\* a run on H = 2, W = 3 with 2 scales: Wd is the step, the last region is
\* the last one of scale 2
C22_Witness ==
    /\ C22_Ran /\ opIn.dims[3] = 2 /\ opIn.dims[4] = 3 /\ opArgs.scales = 2
    /\ rmacNumRois[2] > 0
    /\ LET r == RkRegion(rmacNumRois[1] - 1, rmacNumRois[2], rmacNumRois[3])
       IN  r.l = 2 /\ r.id = (2 + rmacNumRois[2]) * 2 - 1

\* a run on H = 1 with 2 scales: scale 2 has region_size 0 and no region
C22_WitnessEmptyScale ==
    /\ C22_Ran /\ opIn.dims[3] = 1 /\ opIn.dims[4] = 3 /\ opArgs.scales = 2
    /\ RkRegionSize(2, 1, 3) = 0
    /\ rmacNumRois[1] = 1 + rmacNumRois[2]

(***************************************************************************)
(* The specifications: one per operator family, the other families idle.   *)
(***************************************************************************)
InitMask == BmInit /\ DevIdle /\ LnIdle /\ OpIdle /\ S2dIdle /\ AgIdle
    /\ PyIdle /\ RkIdle /\ SaIdle /\ UkIdle /\ SmIdle

SpecMask == InitMask /\ [][BmNext]_vars

InitLayerNorm == LnInit /\ DevIdle /\ BmIdle /\ OpIdle /\ S2dIdle /\ AgIdle
    /\ PyIdle /\ RkIdle /\ SaIdle /\ UkIdle /\ SmIdle

SpecLayerNorm == InitLayerNorm /\ [][LnNext]_vars

InitDevice == DevInit /\ BmIdle /\ LnIdle /\ OpIdle /\ S2dIdle /\ AgIdle
    /\ PyIdle /\ RkIdle /\ SaIdle /\ UkIdle /\ SmIdle

InitOps == OpInit /\ DevIdle /\ BmIdle /\ LnIdle /\ S2dIdle /\ AgIdle
    /\ PyIdle /\ RkIdle /\ SaIdle /\ UkIdle /\ SmIdle

SpecOps == InitOps /\ [][OpNext]_vars

SpecDevice == InitDevice /\ [][DevNext]_vars

InitSparseToDense == S2dInit /\ DevIdle /\ BmIdle /\ LnIdle /\ OpIdle /\ AgIdle
    /\ PyIdle /\ RkIdle /\ SaIdle /\ UkIdle /\ SmIdle

SpecSparseToDense == InitSparseToDense /\ [][S2dNext]_vars

InitAdagrad == AgInit /\ DevIdle /\ BmIdle /\ LnIdle /\ OpIdle /\ S2dIdle
    /\ PyIdle /\ RkIdle /\ SaIdle /\ UkIdle /\ SmIdle

SpecAdagrad == InitAdagrad /\ [][AgNext]_vars

InitBinding == DevInit /\ PyInit /\ BmIdle /\ LnIdle /\ OpIdle /\ S2dIdle /\ AgIdle
    /\ RkIdle /\ SaIdle /\ UkIdle /\ SmIdle

SpecBinding == InitBinding /\ [][PyNext]_vars

InitRmacKernel == RkInit /\ DevIdle /\ BmIdle /\ LnIdle /\ OpIdle /\ S2dIdle
    /\ AgIdle /\ PyIdle /\ SaIdle /\ UkIdle /\ SmIdle

SpecRmacKernel == InitRmacKernel /\ [][RkNext]_vars

InitSparseAdagrad == SaInit /\ DevIdle /\ BmIdle /\ LnIdle /\ OpIdle /\ S2dIdle
    /\ AgIdle /\ PyIdle /\ RkIdle /\ UkIdle /\ SmIdle

SpecSparseAdagrad == InitSparseAdagrad /\ [][SaNext]_vars

InitUnmask == UkInit /\ DevIdle /\ BmIdle /\ LnIdle /\ OpIdle /\ S2dIdle
    /\ AgIdle /\ PyIdle /\ RkIdle /\ SaIdle /\ SmIdle

SpecUnmask == InitUnmask /\ [][UkNext]_vars

InitSequenceMask == SmInit /\ DevIdle /\ BmIdle /\ LnIdle /\ OpIdle /\ S2dIdle
    /\ AgIdle /\ PyIdle /\ RkIdle /\ SaIdle /\ UkIdle

SpecSequenceMask == InitSequenceMask /\ [][SmNext]_vars

InitTriangular == SmTriInit /\ DevIdle /\ BmIdle /\ LnIdle /\ OpIdle /\ S2dIdle
    /\ AgIdle /\ PyIdle /\ RkIdle /\ SaIdle /\ UkIdle

SpecTriangular == InitTriangular /\ [][SmNext]_vars

=============================================================================
